---- MODULE Spec2Model ----
(***************************************************************************)
(* A model of the tubeai-app analysis pipeline: the fixed-window rate      *)
(* limiter (utils/rateLimit.ts) and the streaming route handler            *)
(* (api/analyze-stream/route.ts, in its two revisions) that sequences the  *)
(* provider adapters and emits server-sent events; the in-memory cache     *)
(* (utils/cache.ts), the Reddit token operation (lib/reddit-oauth.ts) and  *)
(* the news and Reddit search adapters (lib/external-apis.ts).             *)
(*                                                                         *)
(* Time is the value of Date.now(), in milliseconds.                       *)
(***************************************************************************)
EXTENDS Integers, Sequences, FiniteSets, Bags, TLC

VARIABLES
  now,      \* Date.now()
  limits,   \* RateLimiter.limits : Map<string, RateLimitEntry>
  cfg,      \* the {maxRequests, windowSeconds} the identities are checked with
  resp,     \* the value returned by the last RateLimiter.check call
  gEnd,     \* history: end of the window an identity's last check fell in
  gCalls,   \* history: number of checks of an identity in that window
  env,      \* process.env: the names of the API keys that are configured
  run,      \* the state of each request being served by POST (see NoRun)
  cache,    \* the entries of the cache behind getCached and setCached
  cres,     \* the last cache operation and what it returned (see NoCres)
  adp,      \* the adapter calls: searchRedditPosts in progress, last news call
  vid,      \* fetchChannelVideos: the call, the cache writes in flight (NoVid)
  race,     \* the getRedditAccessToken calls in progress together (NoRace)
  burst,    \* history: the instants of the allowed checks of one identity
  shared,   \* the requests served together over one limiter (NoShared)
  an,       \* analyzeTopics: the call and the promises in flight (NoAn)
  twin      \* the in-memory cache run beside the KV cache (NoTwin)

limiterVars == <<now, limits, cfg, resp, gEnd, gCalls>>
adapterVars ==
  <<cache, cres, adp, vid, race, burst, shared, an, twin>>
vars ==
  <<now, limits, cfg, resp, gEnd, gCalls, env, run, cache, cres, adp,
    vid, race, burst, shared, an, twin>>

(***************************************************************************)
(* Bounds of the model.                                                    *)
(***************************************************************************)
MaxMaxRequests == 2      \* largest maxRequests of a rate domain
MaxWindowSeconds == 2    \* largest windowSeconds of a rate domain
MaxSeconds == 2          \* the clock runs from 0 to MaxSeconds*1000 + 1 ms
MaxCalls == 4            \* checks of one identity within one window
MaxPauses == 1           \* pauses of the clock while requests are served
MaxTtlSeconds == 2       \* largest ttlSeconds of a cache entry
MaxTopics == 4           \* most topics handed to searchRedditPosts
MaxChildren == 6         \* most children in one search response
MaxSearches == 1         \* calls of searchRedditPosts

(***************************************************************************)
(* Map helpers: a Map<string, V> is a function whose domain is its keys.   *)
(***************************************************************************)
MapSet(m, k, v) == [x \in (DOMAIN m) \cup {k} |-> IF x = k THEN v ELSE m[x]]
MapDelete(m, k) == [x \in (DOMAIN m) \ {k} |-> m[x]]
EmptyMap == [x \in {} |-> 0]

(***************************************************************************)
(* Faulty variants of check, used to show that the claims below depend on  *)
(* it: deny only when count > maxRequests (off by one); move resetAt on    *)
(* every counted request (sliding window); count a denied request.         *)
(***************************************************************************)
checkVariant(lim, identifier, maxRequests, windowSeconds, t,
             offByOne, sliding, consumeDenied) ==
  IF identifier \notin DOMAIN lim \/ t > lim[identifier].resetAt
  THEN LET resetAt == t + windowSeconds * 1000 IN
       [limits |-> MapSet(lim, identifier, [count |-> 1, resetAt |-> resetAt]),
        result |-> [allowed |-> TRUE, remaining |-> maxRequests - 1,
                    resetAt |-> resetAt]]
  ELSE IF (IF offByOne THEN lim[identifier].count > maxRequests
                       ELSE lim[identifier].count >= maxRequests)
  THEN [limits |-> IF consumeDenied
                   THEN MapSet(lim, identifier,
                               [lim[identifier] EXCEPT !.count = @ + 1])
                   ELSE lim,
        result |-> [allowed |-> FALSE, remaining |-> 0,
                    resetAt |-> lim[identifier].resetAt]]
  ELSE LET entry == [count |-> lim[identifier].count + 1,
                     resetAt |-> IF sliding THEN t + windowSeconds * 1000
                                 ELSE lim[identifier].resetAt] IN
       [limits |-> MapSet(lim, identifier, entry),
        result |-> [allowed |-> TRUE, remaining |-> maxRequests - entry.count,
                    resetAt |-> entry.resetAt]]

check_offByOne(lim, identifier, maxRequests, windowSeconds, t) ==
  checkVariant(lim, identifier, maxRequests, windowSeconds, t,
               TRUE, FALSE, FALSE)

check_sliding(lim, identifier, maxRequests, windowSeconds, t) ==
  checkVariant(lim, identifier, maxRequests, windowSeconds, t,
               FALSE, TRUE, FALSE)

check_consumeDenied(lim, identifier, maxRequests, windowSeconds, t) ==
  checkVariant(lim, identifier, maxRequests, windowSeconds, t,
               FALSE, FALSE, TRUE)

(***************************************************************************)
(* RateLimiter.check(identifier, maxRequests, windowSeconds), evaluated at *)
(* Date.now() = t on the map lim.  Yields the map after the call and the   *)
(* returned {allowed, remaining, resetAt}.                                 *)
(***************************************************************************)
check(lim, identifier, maxRequests, windowSeconds, t) ==
  IF identifier \notin DOMAIN lim \/ t > lim[identifier].resetAt
  THEN \* Create new window
       LET resetAt == t + windowSeconds * 1000 IN
       [limits |-> MapSet(lim, identifier, [count |-> 1, resetAt |-> resetAt]),
        result |-> [allowed |-> TRUE, remaining |-> maxRequests - 1,
                    resetAt |-> resetAt]]
  ELSE IF lim[identifier].count >= maxRequests
  THEN [limits |-> lim,
        result |-> [allowed |-> FALSE, remaining |-> 0,
                    resetAt |-> lim[identifier].resetAt]]
  ELSE \* Increment count
       LET entry == [lim[identifier] EXCEPT !.count = @ + 1] IN
       [limits |-> MapSet(lim, identifier, entry),
        result |-> [allowed |-> TRUE, remaining |-> maxRequests - entry.count,
                    resetAt |-> entry.resetAt]]

\* A cleanup that also drops the window whose resetAt is the present instant.
cleanup_inclusive(lim, t) ==
  [k \in {x \in DOMAIN lim : t < lim[x].resetAt} |-> lim[k]]

(***************************************************************************)
(* RateLimiter.cleanup() at Date.now() = t: drops the expired entries.     *)
(***************************************************************************)
cleanup(lim, t) ==
  [k \in {x \in DOMAIN lim : ~(t > lim[x].resetAt)} |-> lim[k]]

checkRateLimit(lim, identifier, maxRequests, windowSeconds, t) ==
  check(lim, identifier, maxRequests, windowSeconds, t)

(***************************************************************************)
(* The limiter on its own: the identities of one rate domain, checked with *)
(* a configuration drawn at start, the periodic sweep, and the clock.      *)
(***************************************************************************)
LimIdents == {"a", "b"}

Instants ==
  {t \in 0..(MaxSeconds * 1000 + 1) : t % 1000 \in {0, 1, 999}}

\* resp: the returned {allowed, remaining, resetAt} with, as history, the
\* identity checked, the instant of the call, the resetAt stored for the
\* identity before the call (-1: no entry), the count stored after it,
\* whether the call opened a window and its rank n among the checks of the
\* window.
NoResp == [id |-> "", at |-> -1, allowed |-> FALSE, remaining |-> 0,
           resetAt |-> -1, stored |-> -1, count |-> 0, fresh |-> FALSE,
           n |-> 0]

LimInit ==
  /\ now = 0
  /\ limits = EmptyMap
  /\ cfg \in [maxRequests : 0..MaxMaxRequests,
              windowSeconds : 1..MaxWindowSeconds]
  /\ resp = NoResp
  /\ gEnd = [i \in LimIdents |-> -1]
  /\ gCalls = [i \in LimIdents |-> 0]
  /\ env = {}
  /\ run = <<>>
  /\ cache = EmptyMap
  /\ cres = <<>>
  /\ adp = <<>>
  /\ vid = <<>>
  /\ race = <<>>
  /\ burst = <<>>
  /\ shared = <<>>
  /\ an = <<>>
  /\ twin = <<>>

\* History: a check of id at `now` opens a window when it is the first
\* check of id or comes after the end of the window of the previous one.
OpensWindow(id) == gCalls[id] = 0 \/ now > gEnd[id]

Check(id) ==
  LET c == cfg
      r == checkRateLimit(limits, id, c.maxRequests, c.windowSeconds, now)
      fresh == OpensWindow(id)
      n == IF fresh THEN 1 ELSE gCalls[id] + 1
  IN /\ n <= MaxCalls
     /\ limits' = r.limits
     /\ resp' = [id |-> id, at |-> now, allowed |-> r.result.allowed,
                 remaining |-> r.result.remaining,
                 resetAt |-> r.result.resetAt,
                 stored |-> IF id \in DOMAIN limits
                            THEN limits[id].resetAt ELSE -1,
                 count |-> r.limits[id].count, fresh |-> fresh, n |-> n]
     /\ gCalls' = [gCalls EXCEPT ![id] = n]
     /\ gEnd' = [gEnd EXCEPT ![id] =
                   IF fresh THEN now + c.windowSeconds * 1000 ELSE @]
     /\ UNCHANGED <<adapterVars, now, cfg, env, run>>

\* setInterval(() => rateLimiter.cleanup(), 60 * 1000)
Cleanup ==
  /\ limits' = cleanup(limits, now)
  /\ UNCHANGED <<adapterVars, now, cfg, resp, gEnd, gCalls, env, run>>

Tick ==
  /\ \E t \in Instants : t > now /\ now' = t
  /\ UNCHANGED <<adapterVars, limits, cfg, resp, gEnd, gCalls, env, run>>

LimNext ==
  \/ \E id \in LimIdents : Check(id)
  \/ Cleanup
  \/ Tick

SpecLimiter == LimInit /\ [][LimNext]_vars

(***************************************************************************)
(* Claims about the rate limiter, under SpecLimiter.                       *)
(***************************************************************************)

\* C4: with maxRequests >= 1, the N-th check of an identity within one
\* window is allowed when N <= maxRequests and denied when N > maxRequests
\* (so the (maxRequests+1)-th is denied); the first check of an identity and
\* a check made after the end of the previous window open a fresh window:
\* allowed, stored count 1, whatever the count was.
C4_WindowQuota ==
  (resp.id # "" /\ cfg.maxRequests >= 1) =>
    /\ resp.fresh => (resp.allowed /\ resp.count = 1)
    /\ ~resp.fresh => (resp.allowed <=> resp.n <= cfg.maxRequests)

\* Witness of C4: after a full window (maxRequests = 2 allowed checks and a
\* denied third one) a check made after resetAt was allowed again.
C4_Witness ==
  /\ cfg.maxRequests = 2
  /\ resp.id = "a" /\ resp.fresh /\ resp.allowed /\ resp.count = 1
  /\ resp.stored >= 0 /\ resp.at > resp.stored
  /\ gCalls["b"] = 3 /\ "b" \in DOMAIN limits /\ limits["b"].count = 2

\* C5: a check arriving at the instant equal to the stored window's resetAt
\* is the first request of a fresh window: the stored count becomes 1 and
\* the returned resetAt is now + windowSeconds.
C5_EdgeStartsFreshWindow ==
  (resp.id # "" /\ resp.stored = resp.at) =>
    /\ resp.allowed
    /\ resp.count = 1
    /\ resp.resetAt = resp.at + cfg.windowSeconds * 1000

\* What the code does at that instant: the check is a request of the old
\* window (it is counted against it, or denied by it) and the stored
\* resetAt is returned.
C5_EdgeIsOldWindow ==
  (resp.id # "" /\ resp.stored = resp.at) =>
    /\ resp.resetAt = resp.stored
    /\ resp.allowed => resp.count > 1

C5_Witness ==
  resp.id # "" /\ resp.stored = resp.at /\ resp.allowed /\ resp.count = 2

\* C6: every response for an identity within one window carries the
\* resetAt fixed when the window was opened (the instant of the opening
\* check plus windowSeconds), and the stored resetAt of a window never
\* moves while checks are counted against it.
C6_ResetAtFixed ==
  /\ resp.id # "" => resp.resetAt = gEnd[resp.id]
  /\ \A id \in LimIdents :
       (id \in DOMAIN limits /\ gCalls[id] > 0) =>
          limits[id].resetAt = gEnd[id]

\* Witness of C6: a denied check and, before it, allowed ones, made later
\* than the check that opened the window.
C6_Witness ==
  /\ resp.id # "" /\ ~resp.allowed /\ resp.n >= 3
  /\ resp.at > resp.resetAt - cfg.windowSeconds * 1000
  /\ resp.at < resp.resetAt

\* C7: a check of an identity whose live window has count >= maxRequests
\* returns allowed = false, remaining = 0 and the stored resetAt, and leaves
\* the whole map (that window and every other) as it was.
DeniedCase(id) ==
  /\ id \in DOMAIN limits
  /\ ~(now > limits[id].resetAt)
  /\ limits[id].count >= cfg.maxRequests

CheckStep(id) == resp' # resp /\ resp'.id = id

C7_DeniedCheckChangesNothing ==
  [][\A id \in LimIdents :
       (CheckStep(id) /\ DeniedCase(id)) =>
          /\ resp'.allowed = FALSE
          /\ resp'.remaining = 0
          /\ resp'.resetAt = limits[id].resetAt
          /\ limits' = limits]_vars

\* Witness of C7: a denied check while another identity holds a window.
C7_Witness ==
  /\ resp.id = "a" /\ ~resp.allowed /\ resp.n > cfg.maxRequests
  /\ cfg.maxRequests >= 1
  /\ "b" \in DOMAIN limits /\ limits["b"].count = 1

\* What a sweep made now would leave: no window whose resetAt is before
\* now, and every other window as it is.
SweepLaw ==
  LET swept == cleanup(limits, now) IN
  /\ DOMAIN swept \subseteq DOMAIN limits
  /\ \A k \in DOMAIN limits :
       IF limits[k].resetAt < now THEN k \notin DOMAIN swept
       ELSE k \in DOMAIN swept /\ swept[k] = limits[k]

\* A step that changes the map and is no check is a sweep.
SweepStep ==
  (limits' # limits /\ gCalls' = gCalls /\ gEnd' = gEnd) =>
    /\ DOMAIN limits' = {k \in DOMAIN limits : ~(limits[k].resetAt < now)}
    /\ \A k \in DOMAIN limits' :
         limits'[k] = limits[k] /\ ~(limits'[k].resetAt < now')

\* C32: the sweep removes every window whose resetAt has passed and no
\* other; the windows it keeps have the count and the resetAt they had, and
\* after a sweep at instant t no stored window has resetAt < t.
C32_SweepDropsExpiredOnly == []SweepLaw /\ [][SweepStep]_vars

\* A sweep removed the expired window of a and kept the window of b, whose
\* resetAt is the present instant, with its count.
C32_Witness ==
  /\ gCalls["a"] > 0 /\ "a" \notin DOMAIN limits
  /\ "b" \in DOMAIN limits
  /\ limits["b"].resetAt = now
  /\ limits["b"].count = gCalls["b"]
  /\ gCalls["b"] = 2

\* The three statements of C35 about one response.
RemainingAndQuota ==
  /\ resp.remaining >= 0
  /\ resp.allowed =>
       /\ resp.remaining = cfg.maxRequests - resp.count
       /\ resp.n <= cfg.maxRequests

\* C35: for every maxRequests >= 0, no response has a negative remaining,
\* an allowed response has remaining = maxRequests - (the checks allowed so
\* far in the window), and no more than maxRequests checks of an identity
\* are allowed in one window.
C35_RemainingAndQuota == resp.id # "" => RemainingAndQuota

\* The same for maxRequests >= 1.
C35_Holds_Positive ==
  (resp.id # "" /\ cfg.maxRequests >= 1) => RemainingAndQuota

\* With maxRequests = 0 the check that opens a window is allowed, and
\* returns remaining = -1.
C35_Witness ==
  /\ cfg.maxRequests = 0
  /\ resp.id # "" /\ resp.fresh /\ resp.allowed
  /\ resp.remaining = -1
  /\ resp.count = 1

(***************************************************************************)
(* The route handler POST of api/analyze-stream/route.ts.                  *)
(*                                                                         *)
(* Two revisions of the handler are in the repository.  In part_004 send   *)
(* and close catch what the stream controller throws; in part_006 send is  *)
(* a bare controller.enqueue inside the handler's try block.  Everything   *)
(* else is the same code, so one set of actions models both, with the      *)
(* revision in run[r].route.                                               *)
(***************************************************************************)
PER_IP_maxRequests == 10
PER_IP_windowSeconds == 60
PER_CHANNEL_maxRequests == 5
PER_CHANNEL_windowSeconds == 300

Runs == {1}
Routes == {"part_004", "part_006"}
Channels == {"UC1"}
RequiredKeys == {"YOUTUBE_API_KEY", "OPENAI_API_KEY"}

\* Request headers: x-forwarded-for as its comma-separated parts (<<>> when
\* the header is absent), x-real-ip ("" when absent).  The requests come
\* from one caller, directly or through a proxy.
Requests ==
  {[forwarded |-> <<>>, realIp |-> "1.1.1.1"],
   [forwarded |-> <<"">>, realIp |-> "1.1.1.1"],
   [forwarded |-> <<"1.1.1.1", "10.0.0.1">>, realIp |-> ""]}

getClientIdentifier(request) ==
  LET first == IF request.forwarded = <<>> THEN ""
               ELSE Head(request.forwarded)
  IN IF first # "" THEN first
     ELSE IF request.realIp # "" THEN request.realIp
     ELSE "unknown"

ChannelKey(channelId) == "channel:" \o channelId

(***************************************************************************)
(* Events (the objects handed to send) and the payloads of the stages.     *)
(* Absent stands for a field the object does not have.                     *)
(***************************************************************************)
\* A field the event does not carry.
Absent == <<>>

Ev(type, data, message, after, resetAt) ==
  [type |-> type, data |-> data, message |-> message, after |-> after,
   resetAt |-> resetAt]

StatusEv(message) == Ev("status", <<>>, message, Absent, Absent)
PartialEv(type, data) == Ev(type, data, "", Absent, Absent)
ErrorEv(message) == Ev("error", <<>>, message, Absent, Absent)
CompleteEv == Ev("complete", <<>>, "", Absent, Absent)
\* `Rate limit exceeded. Please try again after ${new Date(resetAt)...}`
RateLimitEv(rateLimit) ==
  Ev("error", <<>>, "Rate limit exceeded. Please try again after",
     <<rateLimit.resetAt>>, <<rateLimit.resetAt>>)
ChannelRateLimitEv ==
  ErrorEv("Too many requests for this channel. Please try again later.")

Terminal(e) == e.type \in {"complete", "error"}
PartialTypes == {"videos", "topics", "news", "reddit", "ideas"}

\* The topics of the record analyzeTopics builds: response.topics || [],
\* which is whatever JSON the completion held: an array, or a non-empty
\* string, or an object; ZeroLength is an object whose length property is
\* 0, as {"length": 0}, and "object" one without such a property.
Topics(shape, items) == [shape |-> shape, items |-> items]
ZeroLength == Topics("zeroLength", <<>>)
TopicValues ==
  {Topics("array", <<>>), Topics("array", <<"t1">>),
   Topics("string", <<"s">>), Topics("object", <<>>), ZeroLength}
NoTopics == Topics("none", <<>>)

\* topics.length === 0, the first test of both searches.
lengthIsZero(t) ==
  \/ t.shape = "array" /\ t.items = <<>>
  \/ t = ZeroLength

\* analyzeTopics resolved to null: over app/utils/cache.ts its un-awaited
\* getCached is a promise, which it returns, and on a miss the promise
\* resolves to null.  NullData is the data of the event sent with it.
NullTopics == Topics("null", <<>>)
NullData == <<"null">>

VideoLists == {<<>>, <<"v1">>}
NewsLists == {<<>>, <<"n1">>}
RedditLists == {<<>>, <<"p1">>}
IdeaLists == {<<>>, <<"i1">>}

\* A settled promise, as Promise.allSettled reports it.
Pending == [status |-> "pending", value |-> <<>>]
Fulfilled(v) == [status |-> "fulfilled", value |-> v]
Rejected == [status |-> "rejected", value |-> <<>>]

\* fetchRelevantNews(topics): [] when topics.length is 0; else
\* topics.slice(0, 3).join raises, outside its try block, unless topics is
\* an array; every other failure is caught and gives [].
NewsOutcomes(t) ==
  IF lengthIsZero(t) THEN {Fulfilled(<<>>)}
  ELSE IF t.shape = "array" THEN {Fulfilled(l) : l \in NewsLists}
  ELSE {Rejected}

\* searchRedditPosts(topics): [] when topics.length is 0; else iterating
\* topics.slice(0, 3) works on an array and on a string, and raises on
\* anything else.
RedditOutcomes(t) ==
  IF lengthIsZero(t) THEN {Fulfilled(<<>>)}
  ELSE IF t.shape \in {"array", "string"}
  THEN {Fulfilled(l) : l \in RedditLists}
  ELSE {Rejected}

\* An awaited call that raised, with the message of the error.
Raise(message) == [ok |-> FALSE, value |-> <<>>, message |-> message]
Return(v) == [ok |-> TRUE, value |-> v, message |-> ""]

\* What analyzeTopics settles with: a raise of the completion call or of
\* JSON.parse, the record it built or found stored, or null.
AnalyzeOutcomes ==
  {Raise("Connection error.")}
    \cup {Return(t) : t \in TopicValues \cup {NullTopics}}

\* generateVideoIdeas(videos, topics, news, redditPosts): topics.join raises
\* unless topics is an array; the completion call or JSON.parse may raise;
\* otherwise response.ideas || [].
IdeasOutcomes(t) ==
  IF t.shape = "array"
  THEN {Raise("Connection error.")} \cup {Return(l) : l \in IdeaLists}
  ELSE {Raise("topics.join is not a function")}

\* fetchChannelVideos(channelId)
VideosOutcomes ==
  {Raise("No videos found")} \cup {Return(l) : l \in VideoLists}

\* request.json(): raises on a malformed body; else the body's url ("" when
\* it has none).
JsonOutcomes ==
  {Raise("Unexpected end of JSON input"), Raise(""), Return(<<>>),
   Return(<<"url">>)}

\* getChannelIdFromUrl(youtube, url): a channel id, null (<<>>), or a raise
\* (url.match on a url that is not a string).
ResolveOutcomes ==
  {Raise("url.match is not a function"), Return(<<>>)}
    \cup {Return(<<c>>) : c \in Channels}

(***************************************************************************)
(* The state of one request.                                               *)
(*   pc       where the handler is suspended: the await it waits on        *)
(*   sink     the ReadableStream: open, closed (controller.close()) or     *)
(*            cancelled (the caller went away)                             *)
(*   sent     the arguments of the send calls made, in order               *)
(*   seen     how many of them were enqueued into the stream               *)
(*   closes   number of calls of controller.close()                        *)
(*   crashed  the handler ended by an error thrown out of its catch block  *)
(*   calls    the operations invoked, in order, with the news and          *)
(*            redditPosts passed to generateVideoIdeas                     *)
(*   raisedAt the await (or "send") whose error the catch block handled    *)
(***************************************************************************)
NoResult == [allowed |-> TRUE, remaining |-> 0, resetAt |-> 0]

NoRun ==
  [pc |-> "idle", route |-> "part_004", sink |-> "open", sent |-> <<>>,
   seen |-> 0, closes |-> 0, crashed |-> FALSE, calls |-> <<>>,
   raisedAt |-> "",
   clientId |-> "", rateLimit |-> NoResult, channelId |-> "",
   channelRateLimit |-> NoResult, videos |-> <<>>, topics |-> NoTopics,
   newsResult |-> Pending, redditResult |-> Pending]

\* What the handler takes from a settled search: its value, or [].
Settled(result) == IF result.status = "fulfilled" THEN result.value ELSE <<>>

Call(op) == [op |-> op, news |-> <<>>, redditPosts |-> <<>>]
IdeasCall(news, redditPosts) ==
  [op |-> "generateVideoIdeas", news |-> news, redditPosts |-> redditPosts]

\* controller.enqueue throws once the stream is no longer open; only
\* part_004's send catches that.
SendRaises(rr) == rr.route = "part_006" /\ rr.sink # "open"

\* send(e) for each e of events, in order, without a raise.
Sends(rr, events) ==
  [rr EXCEPT !.sent = @ \o events,
             !.seen = IF rr.sink = "open" THEN @ + Len(events) ELSE @]

\* close(): controller.close(), which part_004 guards against a stream
\* that is already cancelled.
Close(rr) ==
  [rr EXCEPT !.closes = @ + 1,
             !.sink = IF @ = "open" THEN "closed" ELSE @]

\* A catch block that withdraws what was sent before it sends the error.
Catch_retract(rr, message) ==
  LET e == ErrorEv(IF message = "" THEN "An error occurred" ELSE message)
      c == [rr EXCEPT !.raisedAt = IF @ = "" THEN rr.pc ELSE @,
                      !.sent = <<>>]
  IN IF SendRaises(c)
     THEN [c EXCEPT !.sent = @ \o <<e>>, !.crashed = TRUE, !.pc = "done"]
     ELSE [Close(Sends(c, <<e>>)) EXCEPT !.pc = "done"]

\* The catch block of the handler: send({type: 'error', message:
\* error.message || 'An error occurred'}); close().  In part_006 a send
\* that raises here ends the handler with the error unhandled.
Catch(rr, message) ==
  LET e == ErrorEv(IF message = "" THEN "An error occurred" ELSE message)
      c == [rr EXCEPT !.raisedAt = IF @ = "" THEN rr.pc ELSE @]
  IN IF SendRaises(c)
     THEN [c EXCEPT !.sent = @ \o <<e>>, !.crashed = TRUE, !.pc = "done"]
     ELSE [Close(Sends(c, <<e>>)) EXCEPT !.pc = "done"]

\* A stretch of the try block that sends events and then either ends the
\* request (close(); return) or makes calls and suspends at nextPc.  In
\* part_006 the first send on a stream that is not open raises into Catch.
Block(rr, events, calls, nextPc) ==
  IF SendRaises(rr) /\ events # <<>>
  THEN Catch([rr EXCEPT !.sent = @ \o <<Head(events)>>,
                        !.raisedAt = "send"],
             "Invalid state: Controller is already closed")
  ELSE LET s == Sends(rr, events) IN
       IF nextPc = "done" THEN [Close(s) EXCEPT !.pc = "done"]
       ELSE [s EXCEPT !.calls = @ \o calls, !.pc = nextPc]

PipeInit ==
  /\ now = 0
  /\ limits = EmptyMap
  /\ cfg = [maxRequests |-> PER_IP_maxRequests,
            windowSeconds |-> PER_IP_windowSeconds]
  /\ resp = NoResp
  /\ gEnd = [i \in LimIdents |-> -1]
  /\ gCalls = [i \in LimIdents |-> 0]
  /\ env \in SUBSET RequiredKeys
  /\ run = [r \in Runs |-> NoRun]
  /\ cache = EmptyMap
  /\ cres = <<>>
  /\ adp = <<>>
  /\ vid = <<>>
  /\ race = <<>>
  /\ burst = <<>>
  /\ shared = <<>>
  /\ an = <<>>
  /\ twin = <<>>

\* StartRun without the early return of the rejected request.
StartRun_noReturn(r) ==
  /\ run[r].pc \in {"idle", "done"}
  /\ \E route \in Routes, request \in Requests :
       LET clientId == getClientIdentifier(request)
           c == checkRateLimit(limits, clientId, PER_IP_maxRequests,
                               PER_IP_windowSeconds, now)
           rr == [NoRun EXCEPT !.route = route, !.clientId = clientId,
                               !.rateLimit = c.result,
                               !.calls = <<Call("checkRateLimit:ip")>>]
       IN /\ limits' = c.limits
          /\ run' = [run EXCEPT ![r] =
               Block(rr, IF ~c.result.allowed
                         THEN <<RateLimitEv(c.result)>> ELSE <<>>,
                     <<Call("request.json")>>, "json")]
  /\ UNCHANGED <<adapterVars, now, cfg, resp, gEnd, gCalls, env>>

\* A request arrives: POST runs up to its first await.  Lines 44-62.
StartRun(r) ==
  /\ run[r].pc \in {"idle", "done"}
  /\ \E route \in Routes, request \in Requests :
       LET clientId == getClientIdentifier(request)
           c == checkRateLimit(limits, clientId, PER_IP_maxRequests,
                               PER_IP_windowSeconds, now)
           rr == [NoRun EXCEPT !.route = route, !.clientId = clientId,
                               !.rateLimit = c.result,
                               !.calls = <<Call("checkRateLimit:ip")>>]
       IN /\ limits' = c.limits
          /\ run' = [run EXCEPT ![r] =
               IF ~c.result.allowed
               THEN Block(rr, <<RateLimitEv(c.result)>>, <<>>, "done")
               ELSE Block(rr, <<>>, <<Call("request.json")>>, "json")]
  /\ UNCHANGED <<adapterVars, now, cfg, resp, gEnd, gCalls, env>>

\* JsonReturns without the test of the two keys.
JsonReturns_noKeyCheck(r) ==
  /\ run[r].pc = "json"
  /\ \E o \in JsonOutcomes :
       run' = [run EXCEPT ![r] =
         IF ~o.ok THEN Catch(@, o.message)
         ELSE IF o.value = <<>>
         THEN Block(@, <<ErrorEv("URL is required")>>, <<>>, "done")
         ELSE Block(@, <<StatusEv("Fetching channel videos...")>>,
                    <<Call("getChannelIdFromUrl")>>, "resolve")]
  /\ UNCHANGED <<adapterVars, now, limits, cfg, resp, gEnd, gCalls, env>>

\* request.json() settles.  Lines 62-78.
JsonReturns(r) ==
  /\ run[r].pc = "json"
  /\ \E o \in JsonOutcomes :
       run' = [run EXCEPT ![r] =
         IF ~o.ok THEN Catch(@, o.message)
         ELSE IF o.value = <<>>
         THEN Block(@, <<ErrorEv("URL is required")>>, <<>>, "done")
         ELSE IF ~(RequiredKeys \subseteq env)
         THEN Block(@, <<ErrorEv("API keys not configured")>>, <<>>, "done")
         ELSE Block(@, <<StatusEv("Fetching channel videos...")>>,
                    <<Call("getChannelIdFromUrl")>>, "resolve")]
  /\ UNCHANGED <<adapterVars, now, limits, cfg, resp, gEnd, gCalls, env>>

\* ResolveReturns without the return after the per-channel denial.
ResolveReturns_noReturn(r) ==
  /\ run[r].pc = "resolve"
  /\ \E o \in ResolveOutcomes :
       IF ~o.ok
       THEN /\ run' = [run EXCEPT ![r] = Catch(@, o.message)]
            /\ limits' = limits
       ELSE IF o.value = <<>>
       THEN /\ run' = [run EXCEPT ![r] =
                 Block(@, <<ErrorEv("Could not extract channel ID from URL")>>,
                       <<>>, "done")]
            /\ limits' = limits
       ELSE LET channelId == o.value[1]
                c == checkRateLimit(limits, ChannelKey(channelId),
                                    PER_CHANNEL_maxRequests,
                                    PER_CHANNEL_windowSeconds, now)
                rr == [run[r] EXCEPT
                         !.channelId = channelId,
                         !.channelRateLimit = c.result,
                         !.calls = @ \o <<Call("checkRateLimit:channel")>>]
            IN /\ limits' = c.limits
               /\ run' = [run EXCEPT ![r] =
                    Block(rr,
                          IF ~c.result.allowed THEN <<ChannelRateLimitEv>>
                          ELSE <<>>,
                          <<Call("fetchChannelVideos")>>, "videos")]
  /\ UNCHANGED <<adapterVars, now, cfg, resp, gEnd, gCalls, env>>

\* getChannelIdFromUrl settles: the per-channel check.  Lines 78-101.
ResolveReturns(r) ==
  /\ run[r].pc = "resolve"
  /\ \E o \in ResolveOutcomes :
       IF ~o.ok
       THEN /\ run' = [run EXCEPT ![r] = Catch(@, o.message)]
            /\ limits' = limits
       ELSE IF o.value = <<>>
       THEN /\ run' = [run EXCEPT ![r] =
                 Block(@, <<ErrorEv("Could not extract channel ID from URL")>>,
                       <<>>, "done")]
            /\ limits' = limits
       ELSE LET channelId == o.value[1]
                c == checkRateLimit(limits, ChannelKey(channelId),
                                    PER_CHANNEL_maxRequests,
                                    PER_CHANNEL_windowSeconds, now)
                rr == [run[r] EXCEPT
                         !.channelId = channelId,
                         !.channelRateLimit = c.result,
                         !.calls = @ \o <<Call("checkRateLimit:channel")>>]
            IN /\ limits' = c.limits
               /\ run' = [run EXCEPT ![r] =
                    IF ~c.result.allowed
                    THEN Block(rr, <<ChannelRateLimitEv>>, <<>>, "done")
                    ELSE Block(rr, <<>>, <<Call("fetchChannelVideos")>>,
                               "videos")]
  /\ UNCHANGED <<adapterVars, now, cfg, resp, gEnd, gCalls, env>>

\* VideosReturns that sends the videos event a second time.
VideosReturns_resend(r) ==
  /\ run[r].pc = "videos"
  /\ \E o \in VideosOutcomes :
       run' = [run EXCEPT ![r] =
         IF ~o.ok THEN Catch(@, o.message)
         ELSE Block([@ EXCEPT !.videos = o.value],
                    <<PartialEv("videos", o.value),
                      StatusEv("Analyzing topics..."),
                      PartialEv("videos", o.value)>>,
                    <<Call("analyzeTopics")>>, "topics")]
  /\ UNCHANGED <<adapterVars, now, limits, cfg, resp, gEnd, gCalls, env>>

\* fetchChannelVideos settles.  Lines 101-106.
VideosReturns(r) ==
  /\ run[r].pc = "videos"
  /\ \E o \in VideosOutcomes :
       run' = [run EXCEPT ![r] =
         IF ~o.ok THEN Catch(@, o.message)
         ELSE Block([@ EXCEPT !.videos = o.value],
                    <<PartialEv("videos", o.value),
                      StatusEv("Analyzing topics...")>>,
                    <<Call("analyzeTopics")>>, "topics")]
  /\ UNCHANGED <<adapterVars, now, limits, cfg, resp, gEnd, gCalls, env>>

\* analyzeTopics settles; both searches are started.  Lines 106-114.  On
\* null the two events are sent and topics.topics raises before a search is
\* called.
TopicsReturns(r) ==
  /\ run[r].pc = "topics"
  /\ \E o \in AnalyzeOutcomes :
       run' = [run EXCEPT ![r] =
         IF ~o.ok THEN Catch(@, o.message)
         ELSE IF o.value = NullTopics
         THEN LET b == Block([@ EXCEPT !.topics = o.value],
                             <<PartialEv("topics", NullData),
                               StatusEv("Fetching news and Reddit discussions...")>>,
                             <<>>, "topics")
              IN IF b.pc = "done" THEN b
                 ELSE Catch(b, "Cannot read properties of null (reading 'topics')")
         ELSE Block([@ EXCEPT !.topics = o.value],
                    <<PartialEv("topics", o.value.items),
                      StatusEv("Fetching news and Reddit discussions...")>>,
                    <<Call("fetchRelevantNews"), Call("searchRedditPosts")>>,
                    "fork")]
  /\ UNCHANGED <<adapterVars, now, limits, cfg, resp, gEnd, gCalls, env>>

\* NewsSettles that sends the news as soon as the news search fulfils.
NewsSettles_emitEarly(r) ==
  /\ run[r].pc = "fork"
  /\ run[r].newsResult = Pending
  /\ \E o \in NewsOutcomes(run[r].topics) :
       run' = [run EXCEPT ![r] =
         [Sends(@, IF Len(Settled(o)) > 0
                   THEN <<PartialEv("news", Settled(o))>> ELSE <<>>)
          EXCEPT !.newsResult = o]]
  /\ UNCHANGED <<adapterVars, now, limits, cfg, resp, gEnd, gCalls, env>>

\* fetchRelevantNews settles.
NewsSettles(r) ==
  /\ run[r].pc = "fork"
  /\ run[r].newsResult = Pending
  /\ \E o \in NewsOutcomes(run[r].topics) :
       run' = [run EXCEPT ![r].newsResult = o]
  /\ UNCHANGED <<adapterVars, now, limits, cfg, resp, gEnd, gCalls, env>>

\* searchRedditPosts settles.
RedditSettles(r) ==
  /\ run[r].pc = "fork"
  /\ run[r].redditResult = Pending
  /\ \E o \in RedditOutcomes(run[r].topics) :
       run' = [run EXCEPT ![r].redditResult = o]
  /\ UNCHANGED <<adapterVars, now, limits, cfg, resp, gEnd, gCalls, env>>

\* Join that sends the news event whether or not there is news.
Join_alwaysNews(r) ==
  /\ run[r].pc = "fork"
  /\ run[r].newsResult # Pending
  /\ run[r].redditResult # Pending
  /\ LET newsResult == run[r].newsResult
         redditResult == run[r].redditResult
         news == IF newsResult.status = "fulfilled"
                 THEN newsResult.value ELSE <<>>
         redditPosts == IF redditResult.status = "fulfilled"
                        THEN redditResult.value ELSE <<>>
     IN run' = [run EXCEPT ![r] =
          Block(@,
                <<PartialEv("news", news)>>
                \o (IF Len(redditPosts) > 0
                    THEN <<PartialEv("reddit", redditPosts)>> ELSE <<>>)
                \o <<StatusEv("Generating video ideas...")>>,
                <<IdeasCall(news, redditPosts)>>, "ideas")]
  /\ UNCHANGED <<adapterVars, now, limits, cfg, resp, gEnd, gCalls, env>>

\* Join as Promise.all would have it: a rejected search rejects the join.
Join_promiseAll(r) ==
  /\ run[r].pc = "fork"
  /\ run[r].newsResult # Pending
  /\ run[r].redditResult # Pending
  /\ LET newsResult == run[r].newsResult
         redditResult == run[r].redditResult
         news == newsResult.value
         redditPosts == redditResult.value
     IN run' = [run EXCEPT ![r] =
          IF "rejected" \in {newsResult.status, redditResult.status}
          THEN Catch(@, "search failed")
          ELSE Block(@,
                (IF Len(news) > 0 THEN <<PartialEv("news", news)>>
                 ELSE <<>>)
                \o (IF Len(redditPosts) > 0
                    THEN <<PartialEv("reddit", redditPosts)>> ELSE <<>>)
                \o <<StatusEv("Generating video ideas...")>>,
                <<IdeasCall(news, redditPosts)>>, "ideas")]
  /\ UNCHANGED <<adapterVars, now, limits, cfg, resp, gEnd, gCalls, env>>

\* Promise.allSettled resolves.  Lines 116-128.
Join(r) ==
  /\ run[r].pc = "fork"
  /\ run[r].newsResult # Pending
  /\ run[r].redditResult # Pending
  /\ LET newsResult == run[r].newsResult
         redditResult == run[r].redditResult
         news == IF newsResult.status = "fulfilled"
                 THEN newsResult.value ELSE <<>>
         redditPosts == IF redditResult.status = "fulfilled"
                        THEN redditResult.value ELSE <<>>
     IN run' = [run EXCEPT ![r] =
          Block(@,
                (IF Len(news) > 0 THEN <<PartialEv("news", news)>>
                 ELSE <<>>)
                \o (IF Len(redditPosts) > 0
                    THEN <<PartialEv("reddit", redditPosts)>> ELSE <<>>)
                \o <<StatusEv("Generating video ideas...")>>,
                <<IdeasCall(news, redditPosts)>>, "ideas")]
  /\ UNCHANGED <<adapterVars, now, limits, cfg, resp, gEnd, gCalls, env>>

\* generateVideoIdeas settles.  Lines 128-132.
IdeasReturns(r) ==
  /\ run[r].pc = "ideas"
  /\ \E o \in IdeasOutcomes(run[r].topics) :
       run' = [run EXCEPT ![r] =
         IF ~o.ok THEN Catch(@, o.message)
         ELSE Block(@, <<PartialEv("ideas", o.value), CompleteEv>>,
                    <<>>, "done")]
  /\ UNCHANGED <<adapterVars, now, limits, cfg, resp, gEnd, gCalls, env>>

\* The caller goes away while the request is being served: the stream is
\* cancelled.
Disconnect(r) ==
  /\ run[r].pc \notin {"idle", "done"}
  /\ run[r].sink = "open"
  /\ run' = [run EXCEPT ![r].sink = "cancelled"]
  /\ UNCHANGED <<adapterVars, now, limits, cfg, resp, gEnd, gCalls, env>>

\* Time passes: a minute and a millisecond, so that a per-caller window
\* opened before the pause has expired after it.
Pause ==
  /\ now + PER_IP_windowSeconds * 1000 + 1
       <= MaxPauses * (PER_IP_windowSeconds * 1000 + 1)
  /\ now' = now + PER_IP_windowSeconds * 1000 + 1
  /\ UNCHANGED <<adapterVars, limits, cfg, resp, gEnd, gCalls, env, run>>

\* The timer the limiter module sets at load sweeps the map.
\* external-apis.ts lines 632-647.
PipeCleanup ==
  /\ limits' = cleanup(limits, now)
  /\ UNCHANGED <<adapterVars, now, cfg, resp, gEnd, gCalls, env, run>>

Next ==
  \/ Pause
  \/ PipeCleanup
  \/ \E r \in Runs : StartRun(r)
  \/ \E r \in Runs : JsonReturns(r)
  \/ \E r \in Runs : ResolveReturns(r)
  \/ \E r \in Runs : VideosReturns(r)
  \/ \E r \in Runs : TopicsReturns(r)
  \/ \E r \in Runs : NewsSettles(r)
  \/ \E r \in Runs : RedditSettles(r)
  \/ \E r \in Runs : Join(r)
  \/ \E r \in Runs : IdeasReturns(r)
  \/ \E r \in Runs : Disconnect(r)

Spec == PipeInit /\ [][Next]_vars

(***************************************************************************)
(* Properties of the pipeline.                                             *)
(***************************************************************************)
Types(s) == [i \in 1..Len(s) |-> s[i].type]
TerminalAt(s) == {i \in 1..Len(s) : Terminal(s[i])}
PartialAt(s) == {i \in 1..Len(s) : s[i].type \in PartialTypes}
Ops(c) == {c[i].op : i \in 1..Len(c)}
IsIdeasCall(c) == c.op = "generateVideoIdeas"
ProviderOps ==
  {"fetchChannelVideos", "analyzeTopics", "fetchRelevantNews",
   "searchRedditPosts", "generateVideoIdeas"}

\* The terminal-event discipline of one run: at most one terminal event,
\* nothing after it, and a finished run has exactly one and has closed the
\* stream once.
OneTerminalEvent(rr) ==
  LET T == TerminalAt(rr.sent) IN
  /\ Cardinality(T) <= 1
  /\ T # {} => T = {Len(rr.sent)} /\ rr.pc = "done"
  /\ rr.pc = "done" =>
       /\ Cardinality(T) = 1
       /\ rr.closes = 1
       /\ rr.sink # "open"
       /\ ~rr.crashed

\* C1: every pipeline run emits exactly one terminal event, either complete
\* or error and never both, no event follows it, and the stream is closed
\* after it.  Stated for both revisions of the route handler.
C1_OneTerminalEvent == \A r \in Runs : OneTerminalEvent(run[r])

\* The same discipline for the handler whose send and close are guarded.
C1_Holds_part_004 ==
  \A r \in Runs : run[r].route = "part_004" => OneTerminalEvent(run[r])

\* A finished run of the unguarded handler whose caller went away.
C1_Witness ==
  \E r \in Runs :
    /\ run[r].route = "part_006"
    /\ run[r].pc = "done"
    /\ run[r].sink = "cancelled"
    /\ run[r].crashed
    /\ Cardinality(TerminalAt(run[r].sent)) = 2
    /\ run[r].closes = 0

\* The run reached the fork with videos and topics that are not empty, its
\* news search failed and its Reddit search found posts.  A news search
\* that failed has rejected, or has caught the failure and returned [];
\* the handler takes [] from it in both cases (lines 116-117).
NewsFailedRedditFound(rr) ==
  /\ rr.pc = "done"
  /\ rr.rateLimit.allowed
  /\ rr.channelId # ""
  /\ rr.channelRateLimit.allowed
  /\ rr.videos # <<>>
  /\ rr.topics.items # <<>>
  /\ rr.newsResult # Pending
  /\ Settled(rr.newsResult) = <<>>
  /\ rr.redditResult.status = "fulfilled"
  /\ rr.redditResult.value # <<>>

RedditOnlySequence ==
  <<"status", "videos", "status", "topics", "status", "reddit", "status",
    "ideas", "complete">>

\* The same run when generateVideoIdeas raises: line 128 to the catch at
\* line 133.
RedditOnlyErrorSequence ==
  <<"status", "videos", "status", "topics", "status", "reddit", "status",
    "error">>

\* The events the caller has seen: those enqueued while the stream was open.
Seen(rr) == SubSeq(rr.sent, 1, rr.seen)

IsPrefix(s, t) == Len(s) <= Len(t) /\ s = SubSeq(t, 1, Len(s))

\* C2 as stated: when both rate checks pass, the channel resolves, videos
\* and topics are not empty, the news search fails and the Reddit search
\* finds posts, the events seen by a caller that stayed to the end of the
\* stream are status, videos, status, topics, status, reddit, status, ideas,
\* complete.
C2_RedditOnlyRun ==
  \A r \in Runs :
    (/\ run[r].route = "part_004"
     /\ NewsFailedRedditFound(run[r])
     /\ run[r].sink = "closed")
      => Types(Seen(run[r])) = RedditOnlySequence

\* C2, amended: in such a run the events seen by the caller are that
\* sequence when generateVideoIdeas returns, and are status, videos, status,
\* topics, status, reddit, status, error when it raises: the handler sends
\* exactly that sequence, a caller that stayed to the end has seen all of
\* it, and a caller that went away has seen a prefix of it.
C2_RedditOnlyRunIdeasReturned ==
  \A r \in Runs :
    (/\ run[r].route = "part_004"
     /\ NewsFailedRedditFound(run[r]))
      => LET expected == IF run[r].raisedAt = "ideas"
                         THEN RedditOnlyErrorSequence
                         ELSE RedditOnlySequence
         IN /\ run[r].raisedAt \in {"", "ideas"}
            /\ Types(run[r].sent) = expected
            /\ IsPrefix(Types(Seen(run[r])), expected)
            /\ run[r].sink = "closed" => Types(Seen(run[r])) = expected

\* A run whose news search caught its failure, whose idea generation
\* returned and whose caller saw the nine events.
C2_Witness ==
  \E r \in Runs :
    /\ run[r].route = "part_004"
    /\ NewsFailedRedditFound(run[r])
    /\ run[r].raisedAt = ""
    /\ run[r].newsResult = Fulfilled(<<>>)
    /\ run[r].sink = "closed"
    /\ run[r].seen = 9
    /\ Types(Seen(run[r])) = RedditOnlySequence

\* The run whose idea generation raised, seen to its error by the caller.
C2_Witness_IdeasRaise ==
  \E r \in Runs :
    /\ run[r].route = "part_004"
    /\ NewsFailedRedditFound(run[r])
    /\ run[r].raisedAt = "ideas"
    /\ run[r].sink = "closed"
    /\ Types(Seen(run[r])) = RedditOnlyErrorSequence

\* C3: the two searches are joined with Promise.allSettled: whichever of
\* them fulfilled or rejected, generateVideoIdeas is called exactly once,
\* after both have settled, with [] in the place of a rejected search, and
\* the rejection does not end the run.
C3_IdeasCalledOnceAfterJoin ==
  \A r \in Runs :
    run[r].route = "part_004" =>
      LET ic == SelectSeq(run[r].calls, IsIdeasCall)
          joined == /\ run[r].pc \in {"ideas", "done"}
                    /\ run[r].newsResult # Pending
                    /\ run[r].redditResult # Pending
      IN /\ Len(ic) <= 1
         /\ Len(ic) = 1 <=> joined
         /\ joined =>
              /\ ic[1].news = Settled(run[r].newsResult)
              /\ ic[1].redditPosts = Settled(run[r].redditResult)
              /\ run[r].raisedAt \in {"", "ideas"}

C3_Witness ==
  \E r \in Runs :
    /\ run[r].route = "part_004"
    /\ run[r].pc = "ideas"
    /\ run[r].newsResult = Rejected
    /\ run[r].redditResult = Fulfilled(<<"p1">>)
    /\ SelectSeq(run[r].calls, IsIdeasCall) = <<IdeasCall(<<>>, <<"p1">>)>>

\* The per-caller check comes first, the per-channel check is made only by
\* a request that passed it, and a request it rejected has sent the one
\* error event, closed the stream and done nothing else.
IpDenialEndsRun(rr) ==
  /\ rr.calls # <<>> => rr.calls[1].op = "checkRateLimit:ip"
  /\ "checkRateLimit:channel" \in Ops(rr.calls) => rr.rateLimit.allowed
  /\ ~rr.rateLimit.allowed =>
       /\ rr.pc = "done"
       /\ rr.calls = <<Call("checkRateLimit:ip")>>
       /\ rr.sent = <<RateLimitEv(rr.rateLimit)>>
       /\ rr.closes = 1
       /\ rr.channelId = ""

\* The step that rejects a request leaves every per-channel window as it
\* was.
IpDenialKeepsChannelWindows ==
  \A r \in Runs :
    (run'[r] # run[r] /\ ~run'[r].rateLimit.allowed) =>
      \A c \in Channels :
        /\ (ChannelKey(c) \in DOMAIN limits')
             <=> (ChannelKey(c) \in DOMAIN limits)
        /\ ChannelKey(c) \in DOMAIN limits =>
             limits'[ChannelKey(c)] = limits[ChannelKey(c)]

\* C8: the per-caller limit is checked before the per-channel limit, and a
\* request the per-caller limit rejects ends at once with an error event:
\* the channel is not resolved, no per-channel window is touched, no
\* external call is made and no status event is sent.
C8_IpDenialShortCircuits ==
  /\ [](\A r \in Runs : IpDenialEndsRun(run[r]))
  /\ [][IpDenialKeepsChannelWindows]_vars

C8_Witness ==
  \E r \in Runs :
    /\ ~run[r].rateLimit.allowed
    /\ run[r].pc = "done"
    /\ run[r].sent = <<RateLimitEv(run[r].rateLimit)>>
    /\ ChannelKey("UC1") \in DOMAIN limits

\* The error event of a rejected request carries the retry-after time and
\* the reset timestamp of the window that rejected it.
RejectionCarriesReset(rr, rateLimit) ==
  /\ Cardinality(TerminalAt(rr.sent)) = 1
  /\ rr.sent[Len(rr.sent)].type = "error"
  /\ rr.sent[Len(rr.sent)].after = <<rateLimit.resetAt>>
  /\ rr.sent[Len(rr.sent)].resetAt = <<rateLimit.resetAt>>

\* C9: every rate-limit rejection, by the per-caller limit or by the
\* per-channel limit, sends a single error event that carries the
\* retry-after time and the reset timestamp of the exhausted window.
C9_RejectionCarriesReset ==
  \A r \in Runs :
    (run[r].route = "part_004" /\ run[r].pc = "done") =>
      /\ ~run[r].rateLimit.allowed
           => RejectionCarriesReset(run[r], run[r].rateLimit)
      /\ ~run[r].channelRateLimit.allowed
           => RejectionCarriesReset(run[r], run[r].channelRateLimit)

\* The per-caller half of C9, which the handler does satisfy.
C9_Holds_PerCaller ==
  \A r \in Runs :
    (run[r].route = "part_004" /\ run[r].pc = "done"
       /\ ~run[r].rateLimit.allowed)
      => RejectionCarriesReset(run[r], run[r].rateLimit)

\* A request rejected by the per-channel limit: its error event has
\* neither field.
C9_Witness ==
  \E r \in Runs :
    /\ run[r].route = "part_004"
    /\ run[r].pc = "done"
    /\ run[r].rateLimit.allowed
    /\ ~run[r].channelRateLimit.allowed
    /\ run[r].sent[Len(run[r].sent)].type = "error"
    /\ run[r].sent[Len(run[r].sent)].resetAt = Absent
    /\ run[r].sent[Len(run[r].sent)].after = Absent

\* The channel of the run could not be resolved: getChannelIdFromUrl was
\* called and the run ended without a channel id.
Unresolved(rr) ==
  /\ rr.pc = "done"
  /\ "getChannelIdFromUrl" \in Ops(rr.calls)
  /\ rr.channelId = ""

\* C10: when the channel cannot be resolved, or a key is missing from the
\* environment, the run ends with an error event, sends no partial event
\* and calls none of fetchChannelVideos, analyzeTopics, fetchRelevantNews,
\* searchRedditPosts and generateVideoIdeas.
C10_NoWorkWithoutChannelOrKeys ==
  \A r \in Runs :
    /\ (Unresolved(run[r]) \/ ~(RequiredKeys \subseteq env)) =>
         /\ PartialAt(run[r].sent) = {}
         /\ Ops(run[r].calls) \cap ProviderOps = {}
         /\ run[r].pc = "done" =>
              /\ TerminalAt(run[r].sent) # {}
              /\ run[r].sent[Len(run[r].sent)].type = "error"
    /\ ~(RequiredKeys \subseteq env) =>
         "getChannelIdFromUrl" \notin Ops(run[r].calls)
    /\ (Unresolved(run[r]) /\ run[r].route = "part_004") =>
         Types(run[r].sent) = <<"status", "error">>

C10_Witness ==
  \E r \in Runs :
    /\ Unresolved(run[r])
    /\ run[r].raisedAt = ""
    /\ run[r].sent[Len(run[r].sent)]
         = ErrorEv("Could not extract channel ID from URL")

C10_Witness_MissingKey ==
  \E r \in Runs :
    /\ ~(RequiredKeys \subseteq env)
    /\ run[r].pc = "done"
    /\ run[r].sent = <<ErrorEv("API keys not configured")>>

\* The failures the handler answers by ending the run: a rejected rate
\* check, a missing key, no url in the request, an unresolved channel.
FatalClass(rr) ==
  \/ ~rr.rateLimit.allowed
  \/ ~rr.channelRateLimit.allowed
  \/ ~(RequiredKeys \subseteq env)
  \/ rr.raisedAt = "json"
  \/ "getChannelIdFromUrl" \notin Ops(rr.calls)
  \/ Unresolved(rr)

\* C11: a run ends with an error event only for the fatal class or when
\* generateVideoIdeas fails; a failure of fetchChannelVideos, of
\* analyzeTopics, of the news search or of the Reddit search is replaced by
\* an empty result and the run goes on to complete.
C11_ErrorOnlyFatalOrIdeas ==
  \A r \in Runs :
    (/\ run[r].route = "part_004"
     /\ run[r].pc = "done"
     /\ run[r].sent[Len(run[r].sent)].type = "error")
      => (FatalClass(run[r]) \/ run[r].raisedAt = "ideas")

\* fetchChannelVideos raised and the run ended with its message.
C11_Witness ==
  \E r \in Runs :
    /\ run[r].route = "part_004"
    /\ run[r].pc = "done"
    /\ run[r].raisedAt = "videos"
    /\ ~FatalClass(run[r])
    /\ run[r].sent[Len(run[r].sent)] = ErrorEv("No videos found")
    /\ PartialAt(run[r].sent) = {}

\* C12: a partial event (videos, topics, news, reddit, ideas) is sent only
\* when the payload of its stage is not empty.
C12_NoEmptyPartial ==
  \A r \in Runs :
    \A i \in PartialAt(run[r].sent) : run[r].sent[i].data # <<>>

\* The news and the Reddit events do follow the rule.
C12_Holds_NewsReddit ==
  \A r \in Runs :
    \A i \in PartialAt(run[r].sent) :
      run[r].sent[i].type \in {"news", "reddit"}
        => run[r].sent[i].data # <<>>

\* generateVideoIdeas returned no idea and the ideas event was sent.
C12_Witness ==
  \E r \in Runs :
    /\ run[r].pc = "done"
    /\ run[r].sent[Len(run[r].sent)].type = "complete"
    /\ \E i \in PartialAt(run[r].sent) :
         run[r].sent[i].type = "ideas" /\ run[r].sent[i].data = <<>>

\* The run met a sink that the caller had closed and went wrong there: a
\* send raised, or the handler ended with an error nobody handled.
AbortedBySink(rr) == rr.raisedAt = "send" \/ rr.crashed

\* C24: once the caller has disconnected, a send and the final close raise
\* nothing into the handler: no run is aborted by the closed sink.  Stated
\* for both revisions of the route handler.
C24_ClosedSinkRaisesNothing ==
  \A r \in Runs : ~AbortedBySink(run[r])

\* The same for the revision whose send and close are guarded, which also
\* goes on to the end: a run that finished after a disconnect without an
\* error event made every call and ended with complete.
C24_Holds_part_004 ==
  \A r \in Runs :
    run[r].route = "part_004" =>
      /\ ~AbortedBySink(run[r])
      /\ (run[r].pc = "done" /\ run[r].sink = "cancelled"
           /\ run[r].sent[Len(run[r].sent)].type # "error") =>
            /\ run[r].sent[Len(run[r].sent)].type = "complete"
            /\ ProviderOps \subseteq Ops(run[r].calls)
            /\ run[r].closes = 1

\* In part_006 the caller left while the videos were fetched; the send of
\* the videos raised, the error event raised again, and no later stage ran.
C24_Witness ==
  \E r \in Runs :
    /\ run[r].route = "part_006"
    /\ run[r].sink = "cancelled"
    /\ run[r].pc = "done"
    /\ run[r].raisedAt = "send"
    /\ run[r].crashed
    /\ "fetchChannelVideos" \in Ops(run[r].calls)
    /\ "analyzeTopics" \notin Ops(run[r].calls)

\* In part_004 the caller left before the videos were sent, and the run
\* went through every stage to complete.
C24_Witness_part_004 ==
  \E r \in Runs :
    /\ run[r].route = "part_004"
    /\ run[r].sink = "cancelled"
    /\ run[r].pc = "done"
    /\ run[r].seen = 1
    /\ run[r].sent[Len(run[r].sent)].type = "complete"
    /\ ProviderOps \subseteq Ops(run[r].calls)

\* The place of a partial event in the order of the stages.
StageRank(type) ==
  CASE type = "videos" -> 1
    [] type = "topics" -> 2
    [] type \in {"news", "reddit"} -> 3
    [] type = "ideas" -> 4

\* C26: in every run the partial events follow the order of the stages:
\* videos before topics, topics before news and reddit, those before ideas;
\* and each kind of partial event is sent at most once.
C26_PartialOrder ==
  \A r \in Runs :
    \A i, j \in PartialAt(run[r].sent) :
      i < j =>
        /\ run[r].sent[i].type # run[r].sent[j].type
        /\ StageRank(run[r].sent[i].type) <= StageRank(run[r].sent[j].type)

\* A finished run that sent all five kinds of partial event.
C26_Witness ==
  \E r \in Runs :
    /\ run[r].pc = "done"
    /\ run[r].sent[Len(run[r].sent)].type = "complete"
    /\ {run[r].sent[i].type : i \in PartialAt(run[r].sent)} = PartialTypes

\* The awaited stages of the handler, by the position the run waits at,
\* and the call each of them is.
StageOp ==
  [json |-> "request.json", resolve |-> "getChannelIdFromUrl",
   videos |-> "fetchChannelVideos", topics |-> "analyzeTopics",
   ideas |-> "generateVideoIdeas"]

\* The types of the events a run without failure has sent when it waits at
\* a stage; a null result of analyzeTopics raises where topics.topics is
\* read, after the topics event and the status event that follows it.
SentBefore(rr, stage) ==
  CASE stage = "json" -> <<>>
    [] stage \in {"resolve", "videos"} -> <<"status">>
    [] stage = "topics" ->
         <<"status", "videos", "status">>
         \o (IF rr.topics = NullTopics THEN <<"topics", "status">> ELSE <<>>)
    [] stage = "ideas" ->
         <<"status", "videos", "status", "topics", "status">>
         \o (IF Len(Settled(rr.newsResult)) > 0 THEN <<"news">> ELSE <<>>)
         \o (IF Len(Settled(rr.redditResult)) > 0 THEN <<"reddit">>
             ELSE <<>>)
         \o <<"status">>

\* C27: when an awaited stage raises, the run is over at once: what was
\* sent is what a run without failure has sent up to that stage, followed
\* by one error event carrying a message, and the failing stage is the last
\* call the run made.
C27_RaiseEndsRun ==
  \A r \in Runs :
    run[r].raisedAt \in DOMAIN StageOp =>
      /\ run[r].pc = "done"
      /\ Types(run[r].sent) =
           SentBefore(run[r], run[r].raisedAt) \o <<"error">>
      /\ run[r].sent[Len(run[r].sent)].message # ""
      /\ run[r].calls[Len(run[r].calls)].op = StageOp[run[r].raisedAt]

\* analyzeTopics raised after the videos were sent: the run ended with the
\* videos event kept, an error after it, and no search was started.
C27_Witness ==
  \E r \in Runs :
    /\ run[r].raisedAt = "topics"
    /\ run[r].pc = "done"
    /\ Types(run[r].sent) = <<"status", "videos", "status", "error">>
    /\ "fetchRelevantNews" \notin Ops(run[r].calls)

\* C28: the news search and the Reddit search are both started before
\* either has settled, and while one of them is pending no news event and
\* no reddit event has been sent and generateVideoIdeas has not been called.
C28_ForkJoin ==
  \A r \in Runs :
    LET rr == run[r] IN
    /\ "fetchRelevantNews" \in Ops(rr.calls)
         <=> "searchRedditPosts" \in Ops(rr.calls)
    /\ (rr.newsResult # Pending \/ rr.redditResult # Pending)
         => {"fetchRelevantNews", "searchRedditPosts"} \subseteq Ops(rr.calls)
    /\ (rr.newsResult = Pending \/ rr.redditResult = Pending)
         => /\ "generateVideoIdeas" \notin Ops(rr.calls)
            /\ \A i \in PartialAt(rr.sent) :
                 rr.sent[i].type \notin {"news", "reddit"}

\* The news search has fulfilled with news while the Reddit search is still
\* pending: both were started, and nothing of the news has been sent.
C28_Witness ==
  \E r \in Runs :
    /\ run[r].pc = "fork"
    /\ run[r].newsResult = Fulfilled(<<"n1">>)
    /\ run[r].redditResult = Pending
    /\ {"fetchRelevantNews", "searchRedditPosts"} \subseteq Ops(run[r].calls)
    /\ \A i \in PartialAt(run[r].sent) : run[r].sent[i].type # "news"

(***************************************************************************)
(* The in-memory cache: class SimpleCache and the functions exported over  *)
(* its one instance.  A value read from the cache is null or <<data>>.     *)
(***************************************************************************)
null == <<>>
Some(data) == <<data>>

\* A cache.set whose expiry is not counted from Date.now().
cache_set_relativeExpiry(c, key, data, ttlSeconds, t) ==
  MapSet(c, key, [data |-> data, expiresAt |-> ttlSeconds * 1000])

\* A cache.delete that drops every entry.
cache_delete_all(c, key) == EmptyMap

\* A cache.set that keeps the later of the old and the new expiry.
cache_set_keepLater(c, key, data, ttlSeconds, t) ==
  MapSet(c, key,
         [data |-> data,
          expiresAt |-> IF key \in DOMAIN c
                           /\ c[key].expiresAt > t + ttlSeconds * 1000
                        THEN c[key].expiresAt
                        ELSE t + ttlSeconds * 1000])

\* A cache.get that answers null for an expired entry and leaves it stored.
cache_get_noEvict(c, key, t) ==
  IF key \in DOMAIN c /\ ~(t > c[key].expiresAt)
  THEN [cache |-> c, value |-> Some(c[key].data)]
  ELSE [cache |-> c, value |-> null]

cache_set(c, key, data, ttlSeconds, t) ==
  MapSet(c, key, [data |-> data, expiresAt |-> t + ttlSeconds * 1000])

\* Returns the cache as the read leaves it, and the value read.
cache_get(c, key, t) ==
  IF key \notin DOMAIN c THEN [cache |-> c, value |-> null]
  ELSE IF t > c[key].expiresAt
  THEN [cache |-> MapDelete(c, key), value |-> null]
  ELSE [cache |-> c, value |-> Some(c[key].data)]

cache_delete(c, key) == MapDelete(c, key)

cache_clear(c) == EmptyMap

cache_cleanup(c, t) ==
  [k \in {x \in DOMAIN c : ~(t > c[x].expiresAt)} |-> c[k]]

getCached(c, key, t) == cache_get(c, key, t)
setCached(c, key, data, ttlSeconds, t) == cache_set(c, key, data, ttlSeconds, t)
\* key = "" stands for the call without a key, and for the empty key.
clearCache(c, key) == IF key # "" THEN cache_delete(c, key) ELSE cache_clear(c)

CacheKeys == {"k1", "k2"}
CacheData == {"v1", "v2"}

\* The expiry of the entry an operation found under its key, or null.
Found(c, key) == IF key \in DOMAIN c THEN Some(c[key].expiresAt) ELSE null

\* The last cache operation: its arguments, the value it returned (of a
\* get), and history: the expiry of the entry a set or a get found under
\* its key, and the keys deleted and not set again since.
NoCres == [op |-> "", key |-> "", data |-> "", ttlSeconds |-> 0,
           value |-> null, at |-> 0, found |-> null, deleted |-> {}]

CacheInit ==
  /\ now = 0
  /\ cache = EmptyMap
  /\ cres = NoCres
  /\ limits = EmptyMap
  /\ cfg = <<>>
  /\ resp = NoResp
  /\ gEnd = [i \in LimIdents |-> -1]
  /\ gCalls = [i \in LimIdents |-> 0]
  /\ env = {}
  /\ run = <<>>
  /\ adp = <<>>
  /\ vid = <<>>
  /\ race = <<>>
  /\ burst = <<>>
  /\ shared = <<>>
  /\ an = <<>>
  /\ twin = <<>>

cacheOthers ==
  <<limits, cfg, resp, gEnd, gCalls, env, run, adp, vid, race,
    burst, shared, an, twin>>

SetCached(key, data, ttlSeconds) ==
  /\ cache' = setCached(cache, key, data, ttlSeconds, now)
  /\ cres' = [op |-> "set", key |-> key, data |-> data,
              ttlSeconds |-> ttlSeconds, value |-> null, at |-> now,
              found |-> Found(cache, key),
              deleted |-> cres.deleted \ {key}]
  /\ UNCHANGED <<now, cacheOthers>>

GetCached(key) ==
  /\ cache' = getCached(cache, key, now).cache
  /\ cres' = [op |-> "get", key |-> key, data |-> "", ttlSeconds |-> 0,
              value |-> getCached(cache, key, now).value, at |-> now,
              found |-> Found(cache, key),
              deleted |-> cres.deleted]
  /\ UNCHANGED <<now, cacheOthers>>

ClearCache(key) ==
  /\ cache' = clearCache(cache, key)
  /\ cres' = [op |-> "delete", key |-> key, data |-> "", ttlSeconds |-> 0,
              value |-> null, at |-> now, found |-> null,
              deleted |-> IF key # "" THEN cres.deleted \cup {key}
                          ELSE CacheKeys]
  /\ UNCHANGED <<now, cacheOthers>>

\* setInterval(() => cache.cleanup(), 5 * 60 * 1000)
CacheCleanup ==
  /\ cache' = cache_cleanup(cache, now)
  /\ UNCHANGED <<now, cres, cacheOthers>>

CacheNext ==
  \/ \E key \in CacheKeys, data \in CacheData,
        ttlSeconds \in 0..MaxTtlSeconds : SetCached(key, data, ttlSeconds)
  \/ \E key \in CacheKeys : GetCached(key)
  \/ \E key \in CacheKeys \cup {""} : ClearCache(key)
  \/ CacheCleanup
  \/ Tick

SpecCache == CacheInit /\ [][CacheNext]_vars

SetThenGet ==
  (cres.op = "set" /\ cres.ttlSeconds > 0 /\ cres.at = now)
    => cache_get(cache, cres.key, now).value = Some(cres.data)

GetAfterDelete ==
  (cres.op = "get" /\ cres.key \in cres.deleted) => cres.value = null

KeyOpKeepsOtherKeys ==
  (cres' # cres /\ cres'.key # "") =>
    \A k \in CacheKeys \ {cres'.key} :
      cache_get(cache', k, now').value = cache_get(cache, k, now).value

\* C20: set(k, v, ttl) with ttl > 0 followed at once by get(k) returns v;
\* after delete(k) every get(k) returns null until the next set(k); an
\* operation on one key never changes what get returns for another key.
C20_CacheLaws ==
  /\ [](SetThenGet /\ GetAfterDelete)
  /\ [][KeyOpKeepsOtherKeys]_vars

\* A get of a deleted key returned null while the other key is still read.
C20_Witness ==
  /\ cres.op = "get"
  /\ cres.key = "k1"
  /\ "k1" \in cres.deleted
  /\ cres.value = null
  /\ "k2" \notin cres.deleted
  /\ cache_get(cache, "k2", now).value = Some("v2")
  /\ now > 0

\* C21: a get(k) made after the expiry instant of the entry stored under k
\* returns null and leaves no entry for k in the store; a get that returns
\* a value found an entry whose expiry instant had not passed.
C21_LazyEviction ==
  cres.op = "get" =>
    /\ (cres.found # null /\ cres.at > cres.found[1])
         => (cres.value = null /\ cres.key \notin DOMAIN cache)
    /\ cres.value # null
         => (cres.found # null /\ ~(cres.at > cres.found[1]))

\* A get found an entry past its expiry, returned null and removed it.
C21_Witness ==
  /\ cres.op = "get"
  /\ cres.found # null
  /\ cres.at > cres.found[1]
  /\ cres.value = null
  /\ cres.key \notin DOMAIN cache

\* The expiry instant of the last set.
SetExpiry == cres.at + cres.ttlSeconds * 1000

\* C22: after set(k, v2, ttl2), whatever entry k held before, the entry of
\* k is v2 with expiry (instant of the set) + ttl2; get(k) returns v2 up to
\* that instant and null after it.
C22_SetReplaces ==
  cres.op = "set" =>
    /\ ~(now > SetExpiry)
         => /\ cres.key \in DOMAIN cache
            /\ cache[cres.key] = [data |-> cres.data, expiresAt |-> SetExpiry]
            /\ cache_get(cache, cres.key, now).value = Some(cres.data)
    /\ now > SetExpiry => cache_get(cache, cres.key, now).value = null

\* A set with a short ttl replaced an entry that had a later expiry, and
\* after the new expiry (before the old one) get returns null.
C22_Witness ==
  /\ cres.op = "set"
  /\ cres.found # null
  /\ cres.found[1] > SetExpiry
  /\ now > SetExpiry
  /\ ~(now > cres.found[1])
  /\ cache_get(cache, cres.key, now).value = null

\* A set replaced an unexpired entry holding another value by one with a
\* later expiry, and get returns the new value after the old expiry.
C22_Witness_Extended ==
  /\ cres.op = "set"
  /\ cres.data = "v2"
  /\ cres.found # null
  /\ ~(cres.at > cres.found[1])
  /\ now > cres.found[1]
  /\ cache_get(cache, cres.key, now).value = Some("v2")

(***************************************************************************)
(* The Vercel KV cache (app/utils/cache.ts) that the token operation       *)
(* awaits.  up = FALSE is a call of the store that fails: the error is     *)
(* caught inside getCached and setCached.  The store refuses an expiry     *)
(* that is not positive, and drops a key once its expiry has passed.       *)
(***************************************************************************)
kv_getCached(c, key, t, up) ==
  IF ~up \/ key \notin DOMAIN c \/ t > c[key].expiresAt THEN null
  ELSE Some(c[key].data)

kv_setCached(c, key, data, ttlSeconds, t, up) ==
  IF ~up \/ ttlSeconds <= 0 THEN c
  ELSE MapSet(c, key, [data |-> data, expiresAt |-> t + ttlSeconds * 1000])

(***************************************************************************)
(* getRedditAccessToken (lib/external-apis.ts, lines 284-329), in the      *)
(* pieces that lie between its awaits.  The function returns to the event  *)
(* loop at getCached, at axios.post and at setCached; it reads the clock   *)
(* when getCached has settled and again when axios.post has settled.       *)
(***************************************************************************)
TokenMarginSeconds == 60
TokenMarginMs == 60000
RedditCredentials == {"REDDIT_CLIENT_ID", "REDDIT_CLIENT_SECRET"}
cacheKey == "reddit:access_token"

\* A check of the record read that takes no record for valid.
tokenHit_never(cached, t) == FALSE

\* Line 297: cached && cached.expiresAt > Date.now() + 60000, with t the
\* clock when getCached has settled.
tokenHit(cached, t) ==
  cached # null /\ cached[1].expiresAt > t + TokenMarginMs

\* Lines 318-322: the record built from the response of the exchange, with
\* t the clock when axios.post has settled.
tokenRecord(access_token, expires_in, t) ==
  [token |-> access_token, expiresAt |-> t + expires_in * 1000]

\* Line 323: setCached(cacheKey, record, expires_in - 60), with t the
\* instant the store takes the write.
storeToken(c, record, expires_in, t, setUp) ==
  kv_setCached(c, cacheKey, record, expires_in - TokenMarginSeconds, t, setUp)

(***************************************************************************)
(* The Reddit search adapter (lib/external-apis.ts).  A child of a search  *)
(* response has a title or not, a url (a number stands for the permalink)  *)
(* and a score; a post is the {url, score} made of a child with a title.   *)
(***************************************************************************)
TopicSlice == 3
MaxPosts == 15

Child(title, url, score) == [title |-> title, url |-> url, score |-> score]
Post(url, score) == [url |-> url, score |-> score]

\* Responses to the search for the i-th topic: posts of its own, and posts
\* that other topics return too, one of them without a title.
Long(i) == [j \in 1..MaxChildren |-> Child(TRUE, 10 * i + j, j % 3)]
Shared(i) ==
  <<Child(TRUE, 11, i), Child(FALSE, 2, 9), Child(TRUE, 1, i % 2)>>
\* The body of a response: its data.children, or no such array in it.
Response(children) == [valid |-> TRUE, children |-> children]
Malformed == [valid |-> FALSE, children |-> <<>>]
SearchOutcomes(i) ==
  {Raise("timeout of 15000ms exceeded"), Return(Malformed),
   Return(Response(<<>>)), Return(Response(Long(i) \o Shared(i)))}

\* children.map(child => child.data?.title ? {...} : null).filter(non-null)
RECURSIVE toPosts(_)
toPosts(children) ==
  IF children = <<>> THEN <<>>
  ELSE (IF Head(children).title
        THEN <<Post(Head(children).url, Head(children).score)>> ELSE <<>>)
       \o toPosts(Tail(children))

\* The body of the try, and the catch that returns [].
searchRedditPublic(http) ==
  IF ~http.ok THEN Return(<<>>)
  ELSE IF ~http.value.valid THEN Return(<<>>)
  ELSE Return(toPosts(http.value.children))

\* The body of searchRedditWithOAuth from its request on (lines 137-178):
\* an error of the request is caught, a body without data.children gives [].
oauthPosts(http) ==
  IF ~http.ok \/ ~http.value.valid THEN Return(<<>>)
  ELSE Return(toPosts(http.value.children))

\* An authenticated search that goes on to the endpoint without a token.
hasToken_noCheck(accessToken) == TRUE

\* Line 131, !accessToken negated: the value getRedditAccessToken returned
\* is a token unless it is null, undefined or the empty string.  "" stands
\* for an access_token that is undefined or empty.
hasToken(accessToken) == accessToken # null /\ accessToken[1] # ""

\* A loop that never turns to the public endpoint after the authenticated
\* search.
needsFallback_never(posts) == FALSE

\* Line 241: posts.length === 0.
needsFallback(posts) == Len(posts) = 0

\* What the credential exchange answers in a search: an error, or a body
\* with a token or without one (access_token ""), with the shortest or the
\* longest of the lifetimes from the margin up.
TopicExchanges ==
  {Raise("Request failed with status code 401")}
    \cup {Return([access_token |-> a, expires_in |-> l]) :
            a \in {"A", ""},
            l \in {TokenMarginSeconds, TokenMarginSeconds + MaxTtlSeconds}}

\* allPosts.filter((post, index, self) =>
\*   index === self.findIndex(p => p.url === post.url))
RECURSIVE uniquePosts(_)
uniquePosts(allPosts) ==
  IF allPosts = <<>> THEN <<>>
  ELSE LET n == Len(allPosts)
           post == allPosts[n]
       IN IF \E j \in 1..(n - 1) : allPosts[j].url = post.url
          THEN uniquePosts(SubSeq(allPosts, 1, n - 1))
          ELSE Append(uniquePosts(SubSeq(allPosts, 1, n - 1)), post)

\* Array.prototype.sort((a, b) => b.score - a.score): stable, so a post
\* goes behind the posts of the same score that come before it.
RECURSIVE sortByScore(_)
sortByScore(posts) ==
  IF posts = <<>> THEN <<>>
  ELSE LET n == Len(posts)
           post == posts[n]
           front == sortByScore(SubSeq(posts, 1, n - 1))
           k == Cardinality({j \in 1..(n - 1) : front[j].score >= post.score})
       IN SubSeq(front, 1, k) \o <<post>> \o SubSeq(front, k + 1, n - 1)

slice(s, start, end) ==
  SubSeq(s, start + 1, IF end < Len(s) THEN end ELSE Len(s))

\* The same steps with the sort made before the duplicates are dropped.
sortedPosts_sortFirst(allPosts) ==
  slice(uniquePosts(sortByScore(allPosts)), 0, MaxPosts)

\* Lines 257-265.
sortedPosts(allPosts) == slice(sortByScore(uniquePosts(allPosts)), 0, MaxPosts)

\* What the request to newsapi.org answers: an error, a body whose
\* articles is not an array, or a body with articles.
NewsHttpOutcomes ==
  {Raise("timeout of 10000ms exceeded"), Return(Malformed)}
    \cup {Return(Response(l)) : l \in NewsLists}

\* fetchRelevantNews(topics), as a settled promise.  Lines 90-123.
fetchRelevantNews(t, e, http) ==
  IF lengthIsZero(t) THEN Fulfilled(<<>>)
  ELSE IF t.shape # "array" THEN Rejected
  ELSE IF "NEWS_API_KEY" \notin e THEN Fulfilled(<<>>)
  ELSE IF ~http.ok THEN Fulfilled(<<>>)
  ELSE IF ~http.value.valid THEN Fulfilled(<<>>)
  ELSE Fulfilled(http.value.children)

Range(s) == {s[i] : i \in 1..Len(s)}

AllTopics == [i \in 1..MaxTopics |-> i]
TopicLists == {SubSeq(AllTopics, 1, n) : n \in 0..MaxTopics}

\* The turn of the loop in progress: the value getRedditAccessToken
\* returned (null when it returned null or was not called), the record and
\* the lifetime of an exchange made in the turn and how the exchange went
\* (none made, failed, malformed: a body without a token, or ok), the
\* endpoints requested so far, what the authenticated search returned and
\* whether its request failed.
NoTurn == [token |-> null, record |-> null, expires_in |-> 0,
           exchange |-> "none",
           endpoints |-> <<>>, oauth |-> Return(<<>>),
           oauthFailed |-> FALSE]

\* The adapter call observed.  The searchRedditPosts call: the await it is
\* suspended at (getCached, post, setCached, oauth, public) or idle or
\* done, the topics given, the topics of the loop, the turn reached, the
\* turn in progress, allPosts, and for every turn finished its record: the
\* topic, the token, the endpoints requested in order, what the
\* authenticated search returned, the posts of the topic (or the error
\* raised) and which requests failed; the value returned.
\* The fetchRelevantNews call: its topics, whether its request failed, and
\* the result.
NoSearch == [pc |-> "idle", given |-> <<>>, topics |-> <<>>, i |-> 0,
             cur |-> NoTurn,
             allPosts |-> <<>>, log |-> <<>>, result |-> Return(<<>>),
             n |-> 0,
             news |-> [topics |-> NoTopics, failed |-> FALSE,
                       result |-> Pending]]

ForumInit ==
  /\ now = 0
  /\ cache = EmptyMap
  /\ env \in {{}, {"REDDIT_CLIENT_ID", "NEWS_API_KEY"}, RedditCredentials,
             RedditCredentials \cup {"NEWS_API_KEY"}}
  /\ adp = NoSearch
  /\ vid = <<>>
  /\ race = <<>>
  /\ cres = <<>>
  /\ limits = EmptyMap
  /\ cfg = <<>>
  /\ resp = NoResp
  /\ gEnd = [i \in LimIdents |-> -1]
  /\ gCalls = [i \in LimIdents |-> 0]
  /\ run = <<>>
  /\ burst = <<>>
  /\ shared = <<>>
  /\ an = <<>>
  /\ twin = <<>>

forumOthers ==
  <<now, cres, limits, cfg, resp, gEnd, gCalls, env, run, vid, race,
    burst, shared, an, twin>>

hasOAuth == RedditCredentials \subseteq env

\* The loop comes to its turn a.i (lines 234-247): past the last topic the
\* posts are sorted and returned; else the turn runs to its first await,
\* getCached inside getRedditAccessToken or the public search.
Turn(a) ==
  IF a.i > Len(a.topics)
  THEN [a EXCEPT !.pc = "done", !.cur = NoTurn,
                 !.result = Return(sortedPosts(a.allPosts))]
  ELSE [a EXCEPT !.pc = IF hasOAuth THEN "getCached" ELSE "public",
                 !.cur = NoTurn]

\* The searches of the turn are over with the posts (or the error) given:
\* lines 249-255, and the next turn.
EndTurn(a, result, publicFailed) ==
  LET turn == [topic |-> a.topics[a.i], token |-> a.cur.token,
               exchange |-> a.cur.exchange,
               endpoints |-> a.cur.endpoints, oauth |-> a.cur.oauth,
               result |-> result, oauthFailed |-> a.cur.oauthFailed,
               publicFailed |-> publicFailed]
  IN IF ~result.ok
     THEN [a EXCEPT !.pc = "done", !.cur = NoTurn, !.result = result,
                    !.log = Append(@, turn)]
     ELSE Turn([a EXCEPT !.i = @ + 1,
                         !.allPosts = @ \o result.value,
                         !.log = Append(@, turn)])

\* searchRedditWithOAuth has returned posts: lines 239-244.
AfterOAuth(a, posts) ==
  LET b == [a EXCEPT !.cur.oauth = posts]
  IN IF needsFallback(posts.value)
     THEN [b EXCEPT !.pc = "public"]
     ELSE EndTurn(b, posts, FALSE)

\* getRedditAccessToken has returned accessToken: lines 130-138.
GotToken(a, accessToken) ==
  IF hasToken(accessToken)
  THEN [a EXCEPT !.pc = "oauth", !.cur.token = accessToken]
  ELSE AfterOAuth([a EXCEPT !.cur.token = accessToken], Return(<<>>))

\* SearchStart that loops over every topic it is given.
SearchStart_allTopics ==
  /\ adp.pc \in {"idle", "done"}
  /\ adp.n < MaxSearches
  /\ \E topics \in TopicLists :
       adp' = IF Len(topics) = 0
              THEN [NoSearch EXCEPT !.pc = "done", !.n = adp.n + 1]
              ELSE Turn([NoSearch EXCEPT !.given = topics,
                                         !.topics = topics,
                                         !.i = 1, !.n = adp.n + 1])
  /\ UNCHANGED <<cache, forumOthers>>

\* searchRedditPosts(topics) is called and runs to its first await.  Lines
\* 227-239.
SearchStart ==
  /\ adp.pc \in {"idle", "done"}
  /\ adp.n < MaxSearches
  /\ \E topics \in TopicLists :
       adp' = IF Len(topics) = 0
              THEN [NoSearch EXCEPT !.pc = "done", !.n = adp.n + 1]
              ELSE Turn([NoSearch EXCEPT
                           !.given = topics,
                           !.topics = slice(topics, 0, TopicSlice),
                           !.i = 1, !.n = adp.n + 1])
  /\ UNCHANGED <<cache, forumOthers>>

\* getCached settles inside getRedditAccessToken.  Lines 296-300.
SearchGetCached(getUp) ==
  /\ adp.pc = "getCached"
  /\ LET cached == kv_getCached(cache, cacheKey, now, getUp) IN
     adp' = IF tokenHit(cached, now)
            THEN GotToken(adp, Some(cached[1].token))
            ELSE [adp EXCEPT !.pc = "post"]
  /\ UNCHANGED <<cache, forumOthers>>

\* axios.post settles inside getRedditAccessToken.  Lines 306-323, 326-329.
SearchExchange(o) ==
  /\ adp.pc = "post"
  /\ adp' = IF ~o.ok
            THEN GotToken([adp EXCEPT !.cur.exchange = "failed"], null)
            ELSE [adp EXCEPT
                    !.pc = "setCached",
                    !.cur.exchange = IF o.value.access_token = ""
                                     THEN "malformed" ELSE "ok",
                    !.cur.record =
                      Some(tokenRecord(o.value.access_token,
                                       o.value.expires_in, now)),
                    !.cur.expires_in = o.value.expires_in]
  /\ UNCHANGED <<cache, forumOthers>>

\* setCached settles and getRedditAccessToken returns the token.  Lines
\* 323-325.
SearchSetCached(setUp) ==
  /\ adp.pc = "setCached"
  /\ cache' = storeToken(cache, adp.cur.record[1], adp.cur.expires_in, now,
                         setUp)
  /\ adp' = GotToken(adp, Some(adp.cur.record[1].token))
  /\ UNCHANGED forumOthers

\* The request of searchRedditWithOAuth settles.  Lines 138-178.
SearchOAuth(http) ==
  /\ adp.pc = "oauth"
  /\ adp' = AfterOAuth(
       [adp EXCEPT !.cur.endpoints = Append(@, "oauth"),
                   !.cur.oauthFailed = ~http.ok \/ ~http.value.valid],
       oauthPosts(http))
  /\ UNCHANGED <<cache, forumOthers>>

\* The request of searchRedditPublic settles.  Lines 186-224.
SearchPublic(http) ==
  /\ adp.pc = "public"
  /\ adp' = EndTurn([adp EXCEPT !.cur.endpoints = Append(@, "public")],
                    searchRedditPublic(http),
                    ~http.ok \/ ~http.value.valid)
  /\ UNCHANGED <<cache, forumOthers>>

\* fetchRelevantNews(topics) is called and settles.  adp records one
\* adapter call at a time: the call is taken while no search has been
\* made, and the next search starts a new record.
FetchNews ==
  \E t \in TopicValues, http \in NewsHttpOutcomes :
    /\ adp.pc = "idle"
    /\ adp' = [NoSearch EXCEPT !.n = adp.n, !.news =
                 [topics |-> t,
                  failed |-> ~http.ok \/ ~http.value.valid,
                  result |-> fetchRelevantNews(t, env, http)]]
    /\ UNCHANGED <<cache, forumOthers>>

InTurn == {"getCached", "post", "setCached", "oauth", "public"}

ForumNext ==
  \/ SearchStart
  \/ \E getUp \in BOOLEAN : SearchGetCached(getUp)
  \/ \E o \in TopicExchanges : SearchExchange(o)
  \/ \E setUp \in BOOLEAN : SearchSetCached(setUp)
  \/ \E http \in SearchOutcomes(adp.i) : SearchOAuth(http)
  \/ \E http \in SearchOutcomes(adp.i) : SearchPublic(http)
  \/ FetchNews

SpecForum == ForumInit /\ [][ForumNext]_vars

\* searchRedditPosts has not raised, nor has any search of a turn; a
\* request that failed gave [], and an exchange that failed or answered
\* without a token gave no token.
SearchNeverRaises ==
  /\ adp.result.ok
  /\ \A k \in 1..Len(adp.log) :
       LET turn == adp.log[k] IN
       /\ turn.result.ok
       /\ turn.oauth.ok
       /\ turn.oauthFailed => turn.oauth.value = <<>>
       /\ turn.publicFailed => turn.result.value = <<>>
       /\ turn.exchange \in {"failed", "malformed"} => ~hasToken(turn.token)
       /\ turn.exchange = "failed" => turn.token = null

\* fetchRelevantNews has fulfilled, with [] when its request failed.
NewsNeverRaises ==
  adp.news.result # Pending =>
    /\ adp.news.result.status = "fulfilled"
    /\ adp.news.failed => adp.news.result.value = <<>>

\* The topics given are a list, or have length 0: line 93 does not raise.
NewsGivenList ==
  adp.news.topics.shape = "array" \/ lengthIsZero(adp.news.topics)

\* C13: fetchRelevantNews, searchRedditPosts and getRedditAccessToken never
\* raise to their caller: when an external call fails (transport error,
\* timeout, server error, malformed response, cache store error) they
\* return the empty list, or no token.
C13_AdaptersNeverRaise == SearchNeverRaises /\ NewsNeverRaises

\* The part of C13 that holds: no failure of a call the adapters make
\* themselves (the news request, the two Reddit requests, the exchange, the
\* store) reaches their caller; fetchRelevantNews raises only at line 93,
\* before its try block, when the topics are not a list.
C13_Holds_ExternalCalls == SearchNeverRaises /\ (NewsGivenList => NewsNeverRaises)

\* fetchRelevantNews was given the topics "s", a string the completion
\* held under topics, and rejected.
C13_Witness ==
  /\ adp.news.topics = Topics("string", <<"s">>)
  /\ adp.news.result = Rejected

\* Both searches of a topic failed, the exchange failed in one turn and
\* answered without a token in another, and the search returned [].
C13_Witness_Search ==
  /\ adp.pc = "done"
  /\ adp.result = Return(<<>>)
  /\ \E k \in 1..Len(adp.log) :
       /\ adp.log[k].endpoints = <<"oauth", "public">>
       /\ adp.log[k].oauthFailed
       /\ adp.log[k].publicFailed
  /\ \E k \in 1..Len(adp.log) : adp.log[k].exchange = "failed"
  /\ \E k \in 1..Len(adp.log) : adp.log[k].exchange = "malformed"

\* The news request failed and fetchRelevantNews returned [].
C13_Witness_News ==
  /\ adp.news.topics = Topics("array", <<"t1">>)
  /\ "NEWS_API_KEY" \in env
  /\ adp.news.failed
  /\ adp.news.result = Fulfilled(<<>>)

\* C14: for each topic searched, with credentials configured, the
\* authenticated endpoint is requested first, and the public endpoint is
\* requested exactly when the authenticated search raised or gave no post;
\* searchRedditPosts returns only after that, and returns [] and no error
\* when both gave nothing for every topic.
C14_FallbackToPublic ==
  /\ hasOAuth =>
       \A k \in 1..Len(adp.log) :
         LET turn == adp.log[k] IN
         /\ turn.endpoints \in
              {<<"oauth">>, <<"public">>, <<"oauth", "public">>}
         /\ hasToken(turn.token) => turn.endpoints[1] = "oauth"
         /\ ~hasToken(turn.token) => turn.endpoints = <<"public">>
         /\ "public" \in Range(turn.endpoints) <=> turn.oauth.value = <<>>
         /\ "public" \notin Range(turn.endpoints)
              => turn.result = turn.oauth
  /\ Len(adp.topics) <= TopicSlice
  /\ adp.pc = "done" =>
       /\ Len(adp.log) = Len(adp.topics)
       /\ (\A k \in 1..Len(adp.log) : adp.log[k].result.value = <<>>)
            => adp.result = Return(<<>>)

\* A search over three topics: one answered by the authenticated endpoint,
\* one by the public endpoint after it.
C14_Witness ==
  /\ hasOAuth
  /\ adp.pc = "done"
  /\ Len(adp.log) = TopicSlice
  /\ \E k \in 1..Len(adp.log) :
       /\ adp.log[k].endpoints = <<"oauth", "public">>
       /\ hasToken(adp.log[k].token)
       /\ adp.log[k].result.value # <<>>
  /\ \E k \in 1..Len(adp.log) :
       /\ adp.log[k].endpoints = <<"oauth">>
       /\ adp.log[k].result.value # <<>>

\* C15: when no token can be had (credentials not configured, or the
\* exchange fails, or what getRedditAccessToken returns is no token) the
\* authenticated endpoint is not requested for the topic and the public
\* endpoint is requested exactly once.
C15_NoTokenGoesPublic ==
  \A k \in 1..Len(adp.log) :
    LET turn == adp.log[k] IN
    /\ ~hasToken(turn.token) => turn.endpoints = <<"public">>
    /\ ~hasOAuth => turn.token = null
    /\ turn.exchange \in {"failed", "malformed"} => ~hasToken(turn.token)

\* Credentials are configured, the exchange failed, the topic was searched
\* on the public endpoint alone.
C15_Witness ==
  /\ hasOAuth
  /\ \E k \in 1..Len(adp.log) :
       /\ adp.log[k].exchange = "failed"
       /\ adp.log[k].token = null
       /\ adp.log[k].endpoints = <<"public">>
       /\ adp.log[k].result.value # <<>>

\* A record without a token was stored by one turn and read by the next:
\* both went to the public endpoint alone.
C15_Witness_EmptyToken ==
  /\ Len(adp.log) >= 2
  /\ adp.log[1].exchange = "malformed"
  /\ adp.log[2].exchange = "none"
  /\ adp.log[2].token = Some("")
  /\ adp.log[1].endpoints = <<"public">>
  /\ adp.log[2].endpoints = <<"public">>

\* Without credentials the topic was searched on the public endpoint alone.
C15_Witness_NoCredentials ==
  /\ ~hasOAuth
  /\ \E k \in 1..Len(adp.log) :
       /\ adp.log[k].token = null
       /\ adp.log[k].endpoints = <<"public">>

Urls(posts) == {posts[i].url : i \in 1..Len(posts)}
\* The place of the first post with the url in the pool.
FirstSeen(posts, url) ==
  CHOOSE i \in 1..Len(posts) :
    posts[i].url = url /\ \A j \in 1..(i - 1) : posts[j].url # url
\* p goes before q: a higher score, or the same score and seen first.
Before(posts, p, q) ==
  \/ p.score > q.score
  \/ p.score = q.score /\ FirstSeen(posts, p.url) < FirstSeen(posts, q.url)

\* C16: the list searchRedditPosts returns has no two posts with the same
\* url, and of each url the first pooled post; it is in order of score,
\* highest first, posts of equal score in the order first seen; it has at
\* most 15 posts, the 15 that come first in that order when there are more.
C16_UniqueSortedTop15 ==
  (adp.pc = "done" /\ adp.result.ok /\ Len(adp.log) = Len(adp.topics)) =>
    LET all == adp.allPosts
        r == adp.result.value
    IN /\ \A k, l \in 1..Len(r) : k # l => r[k].url # r[l].url
       /\ \A k \in 1..Len(r) :
            /\ r[k].url \in Urls(all)
            /\ r[k] = all[FirstSeen(all, r[k].url)]
       /\ \A k, l \in 1..Len(r) : k < l => Before(all, r[k], r[l])
       /\ Len(r) <= MaxPosts
       /\ Len(r) = IF Cardinality(Urls(all)) < MaxPosts
                   THEN Cardinality(Urls(all)) ELSE MaxPosts
       /\ \A u \in Urls(all) \ Urls(r) :
            \A k \in 1..Len(r) : Before(all, r[k], all[FirstSeen(all, u)])

\* More than 15 different urls were pooled, some of them twice with
\* different scores, and 15 posts were returned.
C16_Witness ==
  /\ adp.pc = "done"
  /\ Len(adp.log) = TopicSlice
  /\ Cardinality(Urls(adp.allPosts)) > MaxPosts
  /\ Len(adp.allPosts) > Cardinality(Urls(adp.allPosts))
  /\ \E i, j \in 1..Len(adp.allPosts) :
       /\ adp.allPosts[i].url = adp.allPosts[j].url
       /\ adp.allPosts[i].score # adp.allPosts[j].score
  /\ Len(adp.result.value) = MaxPosts

\* The posts of the turns of a log, in the order of the turns.
RECURSIVE Pooled(_)
Pooled(log) ==
  IF log = <<>> THEN <<>>
  ELSE Pooled(SubSeq(log, 1, Len(log) - 1)) \o log[Len(log)].result.value

\* One turn asks the OAuth endpoint before the public one, if it asks both.
TurnOrder(turn) ==
  turn.endpoints \in {<<"oauth">>, <<"public">>, <<"oauth", "public">>}

\* The searches of a call are made for the first three topics given, one
\* turn per topic in the order given, and the pool is what the finished
\* turns found.
TurnsInOrder ==
  /\ Len(adp.log) <= TopicSlice
  /\ Len(adp.log) <= Len(adp.given)
  /\ \A k \in 1..Len(adp.log) :
       /\ adp.log[k].topic = adp.given[k]
       /\ TurnOrder(adp.log[k])
  /\ adp.pc \in InTurn => adp.i = Len(adp.log) + 1
  /\ adp.allPosts = Pooled(adp.log)

\* Every request the turn made failed: the authenticated one if it was
\* made, and the public one, which is then made too.
AttemptsFailed(turn) ==
  /\ "oauth" \in Range(turn.endpoints) => turn.oauthFailed
  /\ "public" \in Range(turn.endpoints) => turn.publicFailed

\* A step of the loop finishes at most one topic, and only the step in
\* which the last request of the topic settles changes the pool; it
\* appends that topic's posts to the pool, which it otherwise leaves as it
\* was, and a topic whose attempts failed adds nothing.
TurnAppends ==
  /\ adp.pc \in InTurn =>
       /\ adp'.log = adp.log => adp'.allPosts = adp.allPosts
       /\ adp'.log # adp.log => adp.pc \in {"oauth", "public"}
  /\ (adp.pc \in InTurn /\ adp'.log # adp.log) =>
       LET turn == adp'.log[Len(adp'.log)] IN
       /\ adp'.log = Append(adp.log, turn)
       /\ adp'.allPosts = adp.allPosts \o turn.result.value
       /\ AttemptsFailed(turn) =>
            /\ turn.result = Return(<<>>)
            /\ adp'.allPosts = adp.allPosts

\* C29: searchRedditPosts searches at most the first three topics, one
\* after another in the order given; the posts of a topic join the pool
\* when the topic's searches are over, and a topic whose searches fail adds
\* nothing and leaves the posts pooled before it in place.
C29_SequentialTopics == []TurnsInOrder /\ [][TurnAppends]_vars

\* Four topics were given and three searched: the first found posts, the
\* second failed on both endpoints and added nothing, the pool kept the
\* first topic's posts and the third topic's were appended after them.
C29_Witness ==
  /\ adp.pc = "done"
  /\ Len(adp.given) = 4
  /\ Len(adp.log) = 3
  /\ adp.log[1].result.value # <<>>
  /\ adp.log[2].endpoints = <<"oauth", "public">>
  /\ adp.log[2].oauthFailed /\ adp.log[2].publicFailed
  /\ adp.log[2].result.value = <<>>
  /\ adp.log[3].result.value # <<>>
  /\ adp.allPosts = adp.log[1].result.value \o adp.log[3].result.value

(***************************************************************************)
(* fetchChannelVideos (lib/youtube-service.ts) over the Vercel KV cache.   *)
(* The cache is read first, and the function is suspended until the store  *)
(* answers; on a miss the three catalog calls are made, and a result is    *)
(* written to the cache by a setCached that is not awaited: the write      *)
(* reaches the store after the function has returned.  Calls overlap.      *)
(***************************************************************************)
CHANNEL_VIDEOS == 3600
MaxHours == 1
MaxFetches == 3

kv_clearCache(c, key, up) ==
  IF key = "" \/ ~up THEN c ELSE MapDelete(c, key)

VideoChannels == {"UC1"}
channelVideos ==
  [UC1 |-> "channel:videos:UC1"]

\* The videos built from what videos.list answers for a channel, at one
\* time and another: (videosResponse.data.items || []).map(...), which is
\* empty when the answer has no items.
Payloads == {<<>>, <<"v1">>}

\* The catalog calls in the order they are awaited.
CatalogCalls == <<"channels.list", "playlistItems.list", "videos.list">>

\* What the catalog calls come to: the calls made, and the result or the
\* error of fetchChannelVideos.  Each of the three calls may reject;
\* channels.list may answer without an uploads playlist, playlistItems.list
\* without a video id.
CatalogOutcomes ==
  {[calls |-> SubSeq(CatalogCalls, 1, k), result |-> Raise("Request failed")] :
     k \in 1..Len(CatalogCalls)}
  \cup {[calls |-> SubSeq(CatalogCalls, 1, 1),
          result |-> Raise("Could not find uploads playlist")],
         [calls |-> SubSeq(CatalogCalls, 1, 2),
          result |-> Raise("No videos found")]}
  \cup {[calls |-> CatalogCalls, result |-> Return(p)] : p \in Payloads}

HourMs == CHANNEL_VIDEOS * 1000
\* The instants of the clock: the start of each hour and the millisecond
\* before its end, and the millisecond after the end of the last hour.
VideoInstants ==
  {h * HourMs + d : h \in 0..(MaxHours - 1), d \in {0, HourMs - 1}}
    \cup {MaxHours * HourMs + 1}

NoStore == [op |-> "", up |-> TRUE]

\* Calls of fetchChannelVideos that may be in progress together.
Fetchers == {1, 2}

\* One call of fetchChannelVideos in progress: the await it is suspended at
\* (getCached, catalog) or idle, its argument, the instant it was made,
\* whether the store answered its read; and, history, the last result
\* fetched from the catalog for the channel less than an hour before the
\* call was made.
NoFetch ==
  [pc |-> "idle", channelId |-> "", at |-> 0, getUp |-> TRUE,
   priorFetched |-> null]

\* No call has just returned.
NoReturn ==
  [call |-> NoFetch, cached |-> null, calls |-> <<>>,
   result |-> Return(<<>>)]

\* The calls in progress; the number of calls made; the bag of setCached
\* writes on their way to the store (two calls may have issued the same
\* write); what the last step was, if it was a write or a delete reaching
\* the store (store) or a call returning (returned: the call, what
\* getCached gave it, the catalog calls it made and its result); and,
\* history, per channel the last result fetched from the catalog in the
\* last hour and the last write the store took and has not deleted since
\* (each with its instant).
NoVid ==
  [call |-> [c \in Fetchers |-> NoFetch],
   n |-> 0, writes |-> EmptyBag, store |-> NoStore, returned |-> NoReturn,
   fetched |-> [c \in VideoChannels |-> null],
   landed |-> [c \in VideoChannels |-> null]]

VideosInit ==
  /\ now = 0
  /\ cache = EmptyMap
  /\ vid = NoVid
  /\ env = {"YOUTUBE_API_KEY"}
  /\ limits = EmptyMap
  /\ cfg = <<>>
  /\ resp = NoResp
  /\ gEnd = [i \in LimIdents |-> -1]
  /\ gCalls = [i \in LimIdents |-> 0]
  /\ run = <<>>
  /\ cres = <<>>
  /\ adp = <<>>
  /\ race = <<>>
  /\ burst = <<>>
  /\ shared = <<>>
  /\ an = <<>>
  /\ twin = <<>>

videosOthers ==
  <<limits, cfg, resp, gEnd, gCalls, env, run, cres, adp, race,
    burst, shared, an, twin>>

\* The last result fetched for the channel, if less than an hour old at t.
FetchedWithinHour(channelId, t) ==
  IF vid.fetched[channelId] # null
       /\ t < vid.fetched[channelId][1].at + HourMs
  THEN Some(vid.fetched[channelId][1].data)
  ELSE null

\* fetchChannelVideos(channelId) is called and runs to await getCached.
\* Lines 10-13.  The call takes the first record that is free.
FetchCall(c, channelId) ==
  /\ vid.call[c].pc = "idle"
  /\ \A d \in Fetchers : d < c => vid.call[d].pc # "idle"
  /\ vid.n < MaxFetches
  /\ vid' = [vid EXCEPT
               !.call[c] = [NoFetch EXCEPT
                              !.pc = "getCached",
                              !.channelId = channelId,
                              !.at = now,
                              !.priorFetched =
                                FetchedWithinHour(channelId, now)],
               !.n = @ + 1,
               !.store = NoStore,
               !.returned = NoReturn]
  /\ UNCHANGED <<now, cache, videosOthers>>

\* The call k returns: its record is free again.
FetchReturns(c, k, cached, calls, result) ==
  [vid EXCEPT !.call[c] = NoFetch,
              !.store = NoStore,
              !.returned = [call |-> k, cached |-> cached,
                            calls |-> calls, result |-> result]]

\* GetSettles in which an error of the store is not caught.
GetSettles_rethrow(c, getUp) ==
  /\ vid.call[c].pc = "getCached"
  /\ LET k == [vid.call[c] EXCEPT !.getUp = getUp]
         cached == kv_getCached(cache, channelVideos[k.channelId], now, getUp)
     IN vid' = IF ~getUp
               THEN FetchReturns(c, k, null, <<>>, Raise("KV error"))
               ELSE IF cached # null
               THEN FetchReturns(c, k, cached, <<>>, Return(cached[1]))
               ELSE [vid EXCEPT !.call[c] = [k EXCEPT !.pc = "catalog"],
                                !.store = NoStore,
                                !.returned = NoReturn]
  /\ UNCHANGED <<now, cache, videosOthers>>

\* GetSettles that does not look at what the cache returned.
GetSettles_noCache(c, getUp) ==
  /\ vid.call[c].pc = "getCached"
  /\ LET k == [vid.call[c] EXCEPT !.getUp = getUp]
     IN vid' = [vid EXCEPT !.call[c] = [k EXCEPT !.pc = "catalog"],
                           !.store = NoStore,
                           !.returned = NoReturn]
  /\ UNCHANGED <<now, cache, videosOthers>>

\* The kv.get of getCached settles, answered or failed, and the call goes
\* on: it returns what was cached, or asks the catalog.  cache.ts lines
\* 15-24, youtube-service.ts lines 13-19.
GetSettles(c, getUp) ==
  /\ vid.call[c].pc = "getCached"
  /\ LET k == [vid.call[c] EXCEPT !.getUp = getUp]
         cached == kv_getCached(cache, channelVideos[k.channelId], now, getUp)
     IN vid' = IF cached # null
               THEN FetchReturns(c, k, cached, <<>>, Return(cached[1]))
               ELSE [vid EXCEPT !.call[c] = [k EXCEPT !.pc = "catalog"],
                                !.store = NoStore,
                                !.returned = NoReturn]
  /\ UNCHANGED <<now, cache, videosOthers>>

\* The catalog calls settle.  Lines 18-67: an error leaves the function
\* before setCached; a result is handed to setCached and returned.
CatalogSettles(c, o) ==
  /\ vid.call[c].pc = "catalog"
  /\ LET k == vid.call[c]
         r == FetchReturns(c, k, null, o.calls, o.result)
     IN vid' = IF ~o.result.ok THEN r
               ELSE [r EXCEPT
                       !.writes = @ (+) SetToBag(
                         {[key |-> channelVideos[k.channelId],
                           channelId |-> k.channelId,
                           data |-> o.result.value]}),
                       !.fetched[k.channelId] =
                         Some([data |-> o.result.value, at |-> now])]
  /\ UNCHANGED <<now, cache, videosOthers>>

\* One setCached on its way reaches the store, or fails and is logged.
\* cache.ts lines 26-33.
WriteSettles(w, setUp) ==
  /\ BagIn(w, vid.writes)
  /\ cache' = kv_setCached(cache, w.key, w.data, CHANNEL_VIDEOS, now, setUp)
  /\ vid' = [vid EXCEPT !.writes = @ (-) SetToBag({w}),
                        !.store = [op |-> "set", up |-> setUp],
                        !.returned = NoReturn,
                        !.landed[w.channelId] =
                          IF setUp THEN Some([data |-> w.data, at |-> now])
                          ELSE @]
  /\ UNCHANGED <<now, videosOthers>>

\* clearCache(key) is called and settles.  cache.ts lines 35-46.
KvClear(channelId, delUp) ==
  /\ cache' = kv_clearCache(cache, channelVideos[channelId], delUp)
  /\ vid' = [vid EXCEPT !.store = [op |-> "del", up |-> delUp],
                        !.returned = NoReturn,
                        !.landed[channelId] = IF delUp THEN null ELSE @]
  /\ UNCHANGED <<now, videosOthers>>

\* The clock moves on.  A result fetched an hour ago or more is no longer
\* kept as history: no later call is made within the hour of it.
VideoTick ==
  /\ \E t \in VideoInstants : t > now /\ now' = t
  /\ vid' = [vid EXCEPT
               !.store = NoStore,
               !.returned = NoReturn,
               !.fetched = [c \in VideoChannels |->
                              IF vid.fetched[c] # null
                                   /\ now' >= vid.fetched[c][1].at + HourMs
                              THEN null ELSE vid.fetched[c]]]
  /\ UNCHANGED <<cache, videosOthers>>

VideosNext ==
  \/ \E c \in Fetchers, channelId \in VideoChannels : FetchCall(c, channelId)
  \/ \E c \in Fetchers, getUp \in BOOLEAN : GetSettles(c, getUp)
  \/ \E c \in Fetchers, o \in CatalogOutcomes : CatalogSettles(c, o)
  \/ \E w \in BagToSet(vid.writes), setUp \in BOOLEAN :
       WriteSettles(w, setUp)
  \/ \E channelId \in VideoChannels, delUp \in BOOLEAN :
       KvClear(channelId, delUp)
  \/ VideoTick

SpecVideos == VideosInit /\ [][VideosNext]_vars

\* The step in which the read of call c settles, and whether the store
\* answered it.
ReadSettled(c) ==
  vid.call[c].pc = "getCached" /\ vid'.call[c].pc # "getCached"

ReadAnswered(c) ==
  IF vid'.call[c].pc = "catalog" THEN vid'.call[c].getUp
  ELSE vid'.returned.call.getUp

\* A call whose read the store failed goes on exactly as after a miss: it
\* has not returned, it is where a call is after a miss, the store and the
\* writes in flight are as they were, and no other call is touched.
FailedReadIsMiss ==
  \A c \in Fetchers :
    (ReadSettled(c) /\ ~ReadAnswered(c)) =>
      /\ vid'.call[c] = [vid.call[c] EXCEPT !.pc = "catalog",
                                            !.getUp = FALSE]
      /\ vid'.returned = NoReturn
      /\ cache' = cache
      /\ vid'.writes = vid.writes
      /\ \A d \in Fetchers \ {c} : vid'.call[d] = vid.call[d]

\* A call whose read failed returns only what the catalog calls came to:
\* nothing from the cache, and no error of the store.
FailedReadAsksCatalog ==
  (vid.returned # NoReturn /\ ~vid.returned.call.getUp) =>
    /\ vid.returned.cached = null
    /\ vid.returned.calls # <<>>
    /\ vid.returned.result.ok => Len(vid.returned.calls) = Len(CatalogCalls)
    /\ ~vid.returned.result.ok =>
         vid.returned.result.message
           \in {"Request failed", "Could not find uploads playlist",
                "No videos found"}

\* A write or a delete that the store fails changes neither the store nor
\* any call in progress.
FailedWriteIsNothing ==
  (vid'.store # vid.store /\ ~vid'.store.up
   /\ vid'.store.op \in {"set", "del"}) =>
    /\ cache' = cache
    /\ vid'.call = vid.call
    /\ vid'.landed = vid.landed

\* C23: a failure of the store never reaches the caller of the cache: a
\* failing read is a miss, after which fetchChannelVideos asks the catalog
\* and returns what it gets, and a failing write or delete changes nothing.
C23_StoreFailureIsMiss ==
  /\ []FailedReadAsksCatalog
  /\ [][FailedReadIsMiss /\ FailedWriteIsNothing]_vars

\* The store holds a live entry for the channel, the read of a call failed
\* all the same, and the call has returned what the catalog gave.
C23_Witness ==
  LET k == vid.returned.call IN
  /\ vid.returned # NoReturn
  /\ ~k.getUp
  /\ vid.returned.result.ok
  /\ Len(vid.returned.calls) = 3
  /\ channelVideos[k.channelId] \in DOMAIN cache
  /\ k.at < cache[channelVideos[k.channelId]].expiresAt
  /\ now < cache[channelVideos[k.channelId]].expiresAt
  /\ vid.landed[k.channelId] # null
  /\ vid.landed[k.channelId][1].at < k.at

\* The store has just failed a write, while a call is in progress.
C23_Witness_FailedWrite ==
  /\ vid.store = [op |-> "set", up |-> FALSE]
  /\ \E c \in Fetchers : vid.call[c].pc = "catalog"

\* The call that has returned was answered from the cache with the data.
FromCache(r, data) ==
  /\ r # NoReturn
  /\ r.cached = Some(data)
  /\ r.calls = <<>>
  /\ r.result = Return(data)

\* C25 as stated: once a call has fetched a channel's videos from the
\* catalog, every call for the channel made less than an hour later is
\* answered from the cache with those videos, the catalog not being asked.
C25_EveryLaterFetchFromCache ==
  /\ \A c \in Fetchers :
       vid.call[c].pc = "catalog" => vid.call[c].priorFetched = null
  /\ (vid.returned # NoReturn /\ vid.returned.call.priorFetched # null)
       => FromCache(vid.returned, vid.returned.call.priorFetched[1])

\* The store answers the read of call c less than an hour after it took the
\* last write for the channel, with no delete since.
AnsweredWithinHour(c) ==
  LET k == vid.call[c] IN
  /\ ReadSettled(c)
  /\ ReadAnswered(c)
  /\ vid.landed[k.channelId] # null
  /\ now < vid.landed[k.channelId][1].at + HourMs

\* Such a call returns the videos of that write from the cache.
CachedWithinHour ==
  \A c \in Fetchers :
    AnsweredWithinHour(c) =>
      /\ vid'.call[c] = NoFetch
      /\ FromCache(vid'.returned, vid.landed[vid.call[c].channelId][1].data)

\* A read that settles when the store has taken no write for the channel
\* (the write is still on its way, or the store failed it) or has deleted
\* it, or more than an hour after the write was taken, or that the store
\* fails, is a miss: the call goes on to ask the catalog.
MissOtherwise ==
  \A c \in Fetchers :
    LET k == vid.call[c] IN
    (/\ ReadSettled(c)
     /\ \/ ~ReadAnswered(c)
        \/ vid.landed[k.channelId] = null
        \/ now > vid.landed[k.channelId][1].at + HourMs)
      => /\ vid'.call[c].pc = "catalog"
         /\ vid'.returned = NoReturn

\* A call that ends with an error hands nothing to the cache.
FailedFetchStoresNothing ==
  \A c \in Fetchers :
    (vid.call[c].pc = "catalog" /\ vid'.call[c].pc = "idle"
     /\ ~vid'.returned.result.ok) =>
      /\ cache' = cache
      /\ vid'.writes = vid.writes

\* C25, amended: a call whose read the store answers within the hour that
\* follows a write the store has taken is answered from the cache; a read
\* that settles before the write has landed, after the store failed the
\* write, more than an hour after it, or that the store fails, is a miss;
\* a call that fails stores nothing.
C25_CachedAfterWriteLanded ==
  [][CachedWithinHour /\ MissOtherwise /\ FailedFetchStoresNothing]_vars

\* A call made and answered just under an hour after the store took the
\* write has returned the videos written, the catalog not being asked.
C25_Witness ==
  LET k == vid.returned.call IN
  /\ FromCache(vid.returned, <<"v1">>)
  /\ vid.landed[k.channelId] # null
  /\ k.at - vid.landed[k.channelId][1].at = HourMs - 1
  /\ now = k.at
  /\ vid.n >= 2

\* A call made within the hour of a fetch asked the catalog again, because
\* the write of that fetch had not reached the store.
C25_Witness_WriteInFlight ==
  \E c \in Fetchers :
    LET k == vid.call[c] IN
    /\ k.pc = "catalog"
    /\ k.getUp
    /\ k.priorFetched # null
    /\ vid.landed[k.channelId] = null
    /\ vid.writes # EmptyBag

\* A call made just under an hour after the write was taken, whose read the
\* store answered more than an hour after it, asked the catalog again.
C25_Witness_LateAnswer ==
  \E c \in Fetchers :
    LET k == vid.call[c] IN
    /\ k.pc = "catalog"
    /\ k.getUp
    /\ vid.landed[k.channelId] # null
    /\ k.at < vid.landed[k.channelId][1].at + HourMs
    /\ now > vid.landed[k.channelId][1].at + HourMs

(***************************************************************************)
(* getRedditAccessToken called by requests that are served together.  The  *)
(* function suspends at its three awaits (getCached, axios.post,           *)
(* setCached); between them the clock moves and the other call may run.    *)
(* Each exchange issues a token of its own: the k-th exchange issues       *)
(* token k.                                                                *)
(***************************************************************************)
MaxRaceCalls == 2
MaxRaceSeconds == 1

Callers == {1, 2}
\* expires_in: half the margin, and one and two seconds more than the
\* margin, for which a record is stored and is valid for a second or two.
RaceLifetimes ==
  {TokenMarginSeconds \div 2} \cup {TokenMarginSeconds + s : s \in {1, 2}}
RaceInstants == {s * 1000 + d : s \in 0..MaxRaceSeconds, d \in {0, 1}}
RaceExchanges == {Raise("Request failed")} \cup
                 {Return(<<expires_in>>) : expires_in \in RaceLifetimes}

\* One call: where it is suspended, what getCached gave it (null: nothing),
\* the number of exchanges it made, the response of its own exchange and
\* the record { token, expiresAt } it built from it (null: none), the token
\* it returned (null: it returned null, or has not returned), and whether
\* the store answered the last call of the cache it awaited.
NoCall == [pc |-> "idle", cached |-> null, exchanges |-> 0, own |-> null,
           expires_in |-> 0, token |-> null, up |-> TRUE]

\* The calls, and history: the records built by the exchanges so far, and
\* the number of calls made.
NoRace == [call |-> [c \in Callers |-> NoCall], issued |-> {}, n |-> 0]

RaceInit ==
  /\ now = 0
  /\ cache = EmptyMap
  /\ env \in {RedditCredentials, {"REDDIT_CLIENT_ID"}}
  /\ race = NoRace
  /\ limits = EmptyMap
  /\ cfg = <<>>
  /\ resp = NoResp
  /\ gEnd = [i \in LimIdents |-> -1]
  /\ gCalls = [i \in LimIdents |-> 0]
  /\ run = <<>>
  /\ cres = <<>>
  /\ adp = <<>>
  /\ vid = <<>>
  /\ burst = <<>>
  /\ shared = <<>>
  /\ an = <<>>
  /\ twin = <<>>

raceOthers ==
  <<limits, cfg, resp, gEnd, gCalls, env, run, cres, adp, vid,
    burst, shared, an, twin>>

\* getRedditAccessToken() is called.  Lines 284-296.
RaceCall(c) ==
  /\ race.call[c].pc \in {"idle", "done"}
  /\ race.n < MaxRaceCalls
  /\ race' = [race EXCEPT
       !.n = @ + 1,
       !.call[c] = IF RedditCredentials \subseteq env
                   THEN [NoCall EXCEPT !.pc = "getCached"]
                   ELSE [NoCall EXCEPT !.pc = "done"]]
  /\ UNCHANGED <<now, cache, raceOthers>>

\* getCached settles.  Lines 296-300.
RaceRead(c, getUp) ==
  /\ race.call[c].pc = "getCached"
  /\ LET cached == kv_getCached(cache, cacheKey, now, getUp) IN
     race' = [race EXCEPT !.call[c] =
       IF tokenHit(cached, now)
       THEN [@ EXCEPT !.pc = "done", !.cached = cached, !.up = getUp,
                      !.token = Some(cached[1].token)]
       ELSE [@ EXCEPT !.pc = "post", !.cached = cached, !.up = getUp]]
  /\ UNCHANGED <<now, cache, raceOthers>>

\* An exchange whose failure removes the record from the store.
RaceExchange_dropOnFailure(c, o) ==
  /\ race.call[c].pc = "post"
  /\ IF ~o.ok
     THEN /\ race' = [race EXCEPT !.call[c] =
                        [@ EXCEPT !.pc = "done", !.exchanges = @ + 1]]
          /\ cache' = MapDelete(cache, cacheKey)
     ELSE LET access_token == Cardinality(race.issued) + 1
              expires_in == o.value[1]
              record == tokenRecord(access_token, expires_in, now)
          IN /\ race' = [race EXCEPT
                  !.issued = @ \cup {record},
                  !.call[c] = [@ EXCEPT !.pc = "setCached",
                                        !.exchanges = @ + 1,
                                        !.own = Some(record),
                                        !.expires_in = expires_in]]
             /\ cache' = cache
  /\ UNCHANGED <<now, raceOthers>>

\* axios.post settles.  Lines 302-323 and 326-329: an error is caught and
\* null returned; else the record is built from the response and handed to
\* setCached.
RaceExchange(c, o) ==
  /\ race.call[c].pc = "post"
  /\ race' =
       IF ~o.ok
       THEN [race EXCEPT !.call[c] =
               [@ EXCEPT !.pc = "done", !.exchanges = @ + 1]]
       ELSE LET access_token == Cardinality(race.issued) + 1
                expires_in == o.value[1]
                record == tokenRecord(access_token, expires_in, now)
            IN [race EXCEPT
                  !.issued = @ \cup {record},
                  !.call[c] = [@ EXCEPT !.pc = "setCached",
                                        !.exchanges = @ + 1,
                                        !.own = Some(record),
                                        !.expires_in = expires_in]]
  /\ UNCHANGED <<now, cache, raceOthers>>

\* A setCached that writes the token and leaves the expiry of a record that
\* is already stored.
RaceWrite_tokenOnly(c, setUp) ==
  /\ race.call[c].pc = "setCached"
  /\ LET own == race.call[c].own[1]
         old == kv_getCached(cache, cacheKey, now, TRUE)
         record == IF old = null THEN own
                   ELSE [token |-> own.token,
                         expiresAt |-> old[1].expiresAt]
     IN /\ cache' = storeToken(cache, record, race.call[c].expires_in, now,
                               setUp)
        /\ race' = [race EXCEPT !.call[c] =
                      [@ EXCEPT !.pc = "done", !.up = setUp,
                                !.token = Some(own.token)]]
  /\ UNCHANGED <<now, raceOthers>>

\* setCached settles and the call returns access_token.  Lines 323-325.
RaceWrite(c, setUp) ==
  /\ race.call[c].pc = "setCached"
  /\ LET own == race.call[c].own[1]
     IN /\ cache' = storeToken(cache, own, race.call[c].expires_in, now,
                               setUp)
        /\ race' = [race EXCEPT !.call[c] =
                      [@ EXCEPT !.pc = "done", !.up = setUp,
                                !.token = Some(own.token)]]
  /\ UNCHANGED <<now, raceOthers>>

RaceTick ==
  /\ \E t \in RaceInstants : t > now /\ now' = t
  /\ UNCHANGED <<cache, race, raceOthers>>

RaceNext ==
  \/ \E c \in Callers : RaceCall(c)
  \/ \E c \in Callers, getUp \in BOOLEAN : RaceRead(c, getUp)
  \/ \E c \in Callers, o \in RaceExchanges : RaceExchange(c, o)
  \/ \E c \in Callers, setUp \in BOOLEAN : RaceWrite(c, setUp)
  \/ RaceTick

SpecRace == RaceInit /\ [][RaceNext]_vars

\* C30: when calls of getRedditAccessToken overlap, each call that made an
\* exchange returns the token of its own exchange, and the record in the
\* cache is at every moment a record built by one exchange, its token with
\* its own expiry.
C30_OneCompleteRecord ==
  /\ \A c \in Callers :
       (race.call[c].pc = "done" /\ race.call[c].own # null)
         => race.call[c].token = Some(race.call[c].own[1].token)
  /\ cacheKey \in DOMAIN cache => cache[cacheKey].data \in race.issued

\* Both calls found no valid record, each made its own exchange and
\* returned its own token, and the cache holds the record of one of them.
C30_Witness ==
  /\ \A c \in Callers :
       /\ race.call[c].pc = "done"
       /\ race.call[c].own # null
       /\ race.call[c].token = Some(race.call[c].own[1].token)
  /\ race.n = 2
  /\ race.call[1].own # race.call[2].own
  /\ race.call[1].own[1].expiresAt # race.call[2].own[1].expiresAt
  /\ cacheKey \in DOMAIN cache
  /\ cache[cacheKey].data \in {race.call[1].own[1], race.call[2].own[1]}

\* The step in which a call returns a token, and the expiry of that token:
\* of the record of its own exchange, or of the record it read.
Returns(c) ==
  /\ race.call[c].pc # "done"
  /\ race'.call[c].pc = "done"
  /\ race'.call[c].token # null
Expiry(call) ==
  IF call.own # null THEN call.own[1].expiresAt
  ELSE call.cached[1].expiresAt

FreshOnReturn(c) ==
  ~Returns(c) \/ Expiry(race'.call[c]) > now + TokenMarginMs
FreshFromCache(c) ==
  ~(Returns(c) /\ race'.call[c].own = null)
    \/ Expiry(race'.call[c]) > now + TokenMarginMs

\* C17: getRedditAccessToken never returns a token whose expiry is within
\* 60 seconds of the instant it returns, whether the token was read from
\* the cache or just obtained from the exchange, whatever lifetime the
\* provider declared.
C17_NeverWithinMargin == [][\A c \in Callers : FreshOnReturn(c)]_vars

\* The cache half of C17, which the operation does satisfy.
C17_Holds_FromCache == [][\A c \in Callers : FreshFromCache(c)]_vars

\* The exchange declared a lifetime of 30 s and its token was returned.
C17_Witness ==
  \E c \in Callers :
    /\ race.call[c].pc = "done"
    /\ race.call[c].own # null
    /\ race.call[c].token = Some(race.call[c].own[1].token)
    /\ race.call[c].expires_in < TokenMarginSeconds

\* The exchange declared 61 s, a second more than the margin, and the call
\* returned its token more than a second after the response.
C17_Witness_SlowWrite ==
  \E c \in Callers :
    /\ race.call[c].pc = "done"
    /\ race.call[c].token # null
    /\ race.call[c].own # null
    /\ race.call[c].expires_in > TokenMarginSeconds
    /\ race.call[c].up
    /\ cacheKey \in DOMAIN cache
    /\ cache[cacheKey].data = race.call[c].own[1]
    /\ race.call[c].own[1].expiresAt <
         cache[cacheKey].expiresAt + TokenMarginMs - 1000

\* Where each call stands, counted in exchanges: none before axios.post has
\* settled, one after it, never more.
OneExchange ==
  \A c \in Callers :
    LET k == race.call[c] IN
    /\ k.pc \in {"idle", "getCached", "post"} => k.exchanges = 0
    /\ k.pc = "setCached" => k.exchanges = 1
    /\ k.exchanges <= 1
    /\ (k.pc = "done" /\ k.token # null /\ k.own = null) => k.exchanges = 0

\* getCached settles for the call: a record with more than 60 s left is
\* returned as it is, no exchange is made and the store is left alone; with
\* no record, or one with less than 60 s left, the call goes on to the
\* exchange.  A record in the store that was built less than expires_in - 60
\* seconds ago is read and returned when the store answers.
ReadStep(c) ==
  \/ ~(race.call[c].pc = "getCached" /\ race'.call[c].pc # "getCached")
  \/ LET k == race'.call[c]
         left == k.cached[1].expiresAt - now
     IN /\ (k.cached # null /\ left > TokenMarginMs) =>
             /\ k.pc = "done"
             /\ k.token = Some(k.cached[1].token)
             /\ k.exchanges = 0
             /\ cache' = cache
        /\ (k.cached = null \/ left < TokenMarginMs) => k.pc = "post"
        /\ (/\ k.up
            /\ cacheKey \in DOMAIN cache
            /\ now < cache[cacheKey].data.expiresAt - TokenMarginMs) =>
             /\ k.pc = "done"
             /\ k.token = Some(cache[cacheKey].data.token)
             /\ k.exchanges = 0

\* axios.post settles for the call: that is its one exchange.
ExchangeStep(c) ==
  \/ ~(race.call[c].pc = "post" /\ race'.call[c].pc # "post")
  \/ /\ race'.call[c].exchanges = 1
     /\ race'.call[c].pc \in {"setCached", "done"}
     /\ race'.call[c].own # null =>
          race'.call[c].own[1].expiresAt =
            now + race'.call[c].expires_in * 1000

\* setCached settles for the call: when the store takes the write and the
\* lifetime is more than 60 s, the store holds the record of the call's
\* exchange for expires_in - 60 seconds from now.
WriteStep(c) ==
  \/ ~(race.call[c].pc = "setCached" /\ race'.call[c].pc # "setCached")
  \/ LET k == race'.call[c] IN
     /\ k.exchanges = 1
     /\ (k.up /\ k.expires_in > TokenMarginSeconds) =>
          /\ cacheKey \in DOMAIN cache'
          /\ cache'[cacheKey] =
               [data |-> k.own[1],
                expiresAt |->
                  now + (k.expires_in - TokenMarginSeconds) * 1000]

\* C18: a cached token with more than 60 s remaining is returned as it is
\* and no exchange is made; a call that finds no record, or one with less
\* than 60 s remaining, makes exactly one exchange; after a successful
\* exchange with lifetime L the record is stored with a TTL of L - 60 s,
\* and calls within L - 60 s of the exchange reuse it.
C18_TokenReuseAndRefresh ==
  /\ []OneExchange
  /\ [][\A c \in Callers : ReadStep(c) /\ ExchangeStep(c) /\ WriteStep(c)]_vars

\* A later call read the record an earlier exchange had stored and returned
\* its token without an exchange of its own.
C18_Witness ==
  \E c \in Callers :
    /\ race.call[c].pc = "done"
    /\ race.call[c].exchanges = 0
    /\ race.call[c].cached # null
    /\ race.call[c].cached[1] \in race.issued
    /\ race.call[c].token = Some(race.call[c].cached[1].token)
    /\ now > 0

\* The exchange of the call fails: the call returns null and the store is
\* as it was.
FailedExchangeStep(c) ==
  \/ ~(/\ race.call[c].pc = "post"
       /\ race'.call[c].pc = "done"
       /\ race'.call[c].own = null)
  \/ /\ race'.call[c].token = null
     /\ cache' = cache

\* A call that has returned writes nothing more.
ReturnedIsOver(c) ==
  \/ ~(race.call[c].pc = "done" /\ race'.call[c].pc = "done")
  \/ race'.call[c] = race.call[c]

\* C19: when the credential exchange fails the operation returns null, does
\* not raise, and leaves the cache as it was: no record is written and a
\* stored record is not removed or changed.
C19_FailedExchangeKeepsCache ==
  [][\A c \in Callers : FailedExchangeStep(c) /\ ReturnedIsOver(c)]_vars

\* The exchange of a call failed while the store held a live record that
\* another call had stored; the call returned null and the record is there.
C19_Witness ==
  \E c \in Callers :
    /\ race.call[c].pc = "done"
    /\ race.call[c].exchanges = 1
    /\ race.call[c].own = null
    /\ race.call[c].token = null
    /\ kv_getCached(cache, cacheKey, now, TRUE) # null

(***************************************************************************)
(* The allowed checks of one identity over time.  burst holds the instants *)
(* of the allowed checks that lie no more than windowSeconds before the    *)
(* last of them: the allowed checks of the interval of that length that    *)
(* ends with the last allowed check.                                       *)
(***************************************************************************)
BurstIdent == "a"

BurstInit ==
  /\ now = 0
  /\ limits = EmptyMap
  /\ cfg \in [maxRequests : 0..MaxMaxRequests,
              windowSeconds : 1..MaxWindowSeconds]
  /\ burst = <<>>
  /\ resp = NoResp
  /\ gEnd = [i \in LimIdents |-> -1]
  /\ gCalls = [i \in LimIdents |-> 0]
  /\ env = {}
  /\ run = <<>>
  /\ cache = EmptyMap
  /\ cres = <<>>
  /\ adp = <<>>
  /\ vid = <<>>
  /\ race = <<>>
  /\ shared = <<>>
  /\ an = <<>>
  /\ twin = <<>>

\* The instants of s that lie no more than windowSeconds before t.
Within(s, t, windowSeconds) ==
  LET near(x) == t - x <= windowSeconds * 1000 IN SelectSeq(s, near)

\* checkRateLimit(BurstIdent, maxRequests, windowSeconds) is called.
BurstCheck ==
  LET r == checkRateLimit(limits, BurstIdent, cfg.maxRequests,
                          cfg.windowSeconds, now)
  IN /\ limits' = r.limits
     /\ burst' = IF r.result.allowed
                 THEN Within(Append(burst, now), now, cfg.windowSeconds)
                 ELSE burst
     /\ UNCHANGED <<now, cfg, resp, gEnd, gCalls, env, run, cache, cres,
                    adp, vid, race, shared, an, twin>>

BurstNext == BurstCheck \/ Cleanup \/ Tick

SpecBurst == BurstInit /\ [][BurstNext]_vars

\* C33: in an interval no longer than windowSeconds at most 2 x maxRequests
\* checks of the identity are allowed.
C33_AtMostTwiceMax == Len(burst) <= 2 * cfg.maxRequests

\* What holds of check: for maxRequests >= 1 the allowed checks of such an
\* interval are fewer than 2 x maxRequests.  The check that opens a window
\* is one of those the window allows, and the next window is opened only
\* when now > resetAt, so that check lies more than windowSeconds before
\* every check of the next window.
C33_Holds_BelowTwiceMax ==
  cfg.maxRequests >= 1 => Len(burst) <= 2 * cfg.maxRequests - 1

\* With maxRequests = 0 a check was allowed: more than 2 x maxRequests in
\* an interval of no length.
C33_Witness ==
  /\ cfg.maxRequests = 0
  /\ Len(burst) = 1
  /\ limits[BurstIdent].count = 1

\* With maxRequests = 2 and a window of one second, three checks were
\* allowed within one second: the second of a window, at its resetAt, and
\* the two of the next window a millisecond later.
C33_Witness_Boundary ==
  /\ cfg = [maxRequests |-> 2, windowSeconds |-> 1]
  /\ Len(burst) = 3
  /\ burst[3] - burst[1] = 1
  /\ limits[BurstIdent].count = 2
  /\ limits[BurstIdent].resetAt = burst[3] + 1000

\* The run was denied by the per-channel check.
ChannelDenied(rr) == rr.channelId # "" /\ ~rr.channelRateLimit.allowed

\* The events of the run that reached the stream.
Delivered(rr) == SubSeq(rr.sent, 1, rr.seen)

DeniedEvents == <<StatusEv("Fetching channel videos..."), ChannelRateLimitEv>>

\* C37: a run denied by the per-channel check makes no call of
\* fetchChannelVideos, analyzeTopics, fetchRelevantNews, searchRedditPosts
\* or generateVideoIdeas, the only places where the cache is written; it
\* is over, and the events it delivered are the status of the first stage
\* and the error, no more (the first of them, or none, when the client
\* went away before).
C37_ChannelDeniedDoesNothing ==
  \A r \in Runs :
    ChannelDenied(run[r]) =>
      /\ run[r].pc = "done"
      /\ \A i \in 1..Len(run[r].calls) : run[r].calls[i].op \notin ProviderOps
      /\ Delivered(run[r]) = SubSeq(DeniedEvents, 1, run[r].seen)
      /\ run[r].sink = "closed" =>
           /\ run[r].sent = DeniedEvents
           /\ run[r].seen = 2
           /\ run[r].closes = 1

\* The sixth run for one channel within 300 s, with the caller's own
\* window renewed in between, was denied by the per-channel check and its
\* two events were delivered.
C37_Witness ==
  \E r \in Runs :
    /\ ChannelDenied(run[r])
    /\ run[r].rateLimit.allowed
    /\ run[r].sink = "closed"
    /\ Delivered(run[r]) = DeniedEvents
    /\ limits[ChannelKey(run[r].channelId)].count = PER_CHANNEL_maxRequests

\* The pipeline when every call that a run awaits settles: request.json,
\* getChannelIdFromUrl, fetchChannelVideos, analyzeTopics, the two
\* searches, their join and generateVideoIdeas.  Nothing obliges a caller
\* to send a request, to go away, or time to pass.
SpecLive ==
  /\ Spec
  /\ \A r \in Runs :
       /\ WF_vars(JsonReturns(r))
       /\ WF_vars(ResolveReturns(r))
       /\ WF_vars(VideosReturns(r))
       /\ WF_vars(TopicsReturns(r))
       /\ WF_vars(NewsSettles(r))
       /\ WF_vars(RedditSettles(r))
       /\ WF_vars(Join(r))
       /\ WF_vars(IdeasReturns(r))

InFlight(rr) == rr.pc \notin {"idle", "done"}

\* The run is over: its last event is complete or error and it has called
\* close() once.
Ended(rr) ==
  /\ rr.pc = "done"
  /\ rr.sent # <<>>
  /\ Terminal(rr.sent[Len(rr.sent)])
  /\ rr.closes = 1

\* C38: when every call a run awaits settles, the run comes to its end: it
\* sends its terminal event and closes the stream; and no run closes the
\* stream twice.  Stated for both revisions of the route handler.
C38_EveryRunEnds ==
  /\ \A r \in Runs : InFlight(run[r]) ~> Ended(run[r])
  /\ [](\A r \in Runs : run[r].closes <= 1)

\* Every run comes to its end or to the unhandled error of part_006, which
\* only a run whose caller went away comes to; no run closes the stream
\* twice.
C38_Holds_EndsOrCrashes ==
  /\ \A r \in Runs : InFlight(run[r]) ~> (Ended(run[r]) \/ run[r].crashed)
  /\ [](\A r \in Runs :
         /\ run[r].closes <= 1
         /\ run[r].crashed =>
              run[r].route = "part_006" /\ run[r].sink = "cancelled")

\* Every run of the revision whose send and close are guarded comes to its
\* end, whether its caller stayed or went away.
C38_Holds_part_004 ==
  \A r \in Runs :
    (InFlight(run[r]) /\ run[r].route = "part_004") ~> Ended(run[r])

\* In part_006 the caller went away while generateVideoIdeas was awaited:
\* the run is over without a close.
C38_Witness ==
  \E r \in Runs :
    /\ run[r].route = "part_006"
    /\ run[r].pc = "done"
    /\ run[r].raisedAt = "send"
    /\ "generateVideoIdeas" \in Ops(run[r].calls)
    /\ run[r].crashed
    /\ run[r].closes = 0

(***************************************************************************)
(* Requests served together over the one rateLimiter of the module.  POST  *)
(* makes its two checks in stretches of code without an await, so a check  *)
(* is one step; between its awaits a request may be overtaken by another.  *)
(* The stages after the per-channel check are one step: they make no call  *)
(* of the limiter.  A caller chooses its x-forwarded-for header.           *)
(***************************************************************************)
SharedRuns == {1, 2}
SharedRequests ==
  {[forwarded |-> <<>>, realIp |-> "1.1.1.1"],
   [forwarded |-> <<"channel:UC1", "10.0.0.1">>, realIp |-> ""]}
ChannelKeys == {ChannelKey(c) : c \in Channels}

SharedInstants ==
  {0, PER_IP_windowSeconds * 1000 + 1,
   PER_CHANNEL_windowSeconds * 1000 + 1}

\* One request being served: where it is suspended, its identities, and
\* history: the keys of the windows it took a slot of.  A request that
\* ended leaves nothing behind.
NoSharedRun ==
  [pc |-> "idle", clientId |-> "", channelId |-> "", took |-> <<>>]

\* The requests, and history: per key the end of the window the last check
\* of the key fell in, the checks the per-caller and the per-channel domain
\* passed in it and whether one was denied in it; and whether a caller
\* identity was the key of a channel.
NoShared ==
  [run |-> [r \in SharedRuns |-> NoSharedRun], win |-> EmptyMap,
   spoofed |-> FALSE]

SharedInit ==
  /\ now = 0
  /\ limits = EmptyMap
  /\ shared = NoShared
  /\ env = RequiredKeys
  /\ cfg = <<>>
  /\ resp = NoResp
  /\ gEnd = [i \in LimIdents |-> -1]
  /\ gCalls = [i \in LimIdents |-> 0]
  /\ run = <<>>
  /\ cache = EmptyMap
  /\ cres = <<>>
  /\ adp = <<>>
  /\ vid = <<>>
  /\ race = <<>>
  /\ burst = <<>>
  /\ an = <<>>
  /\ twin = <<>>

sharedOthers ==
  <<cfg, resp, gEnd, gCalls, env, run, cache, cres, adp, vid, race,
    burst, an, twin>>

\* History of a check of key by a domain whose windows last windowSeconds.
Counted(win, key, domain, windowSeconds, allowed) ==
  LET fresh == key \notin DOMAIN win \/ now > win[key].end
      w == IF fresh
           THEN [end |-> now + windowSeconds * 1000, ip |-> 0, ch |-> 0,
                 denied |-> FALSE]
           ELSE win[key]
  IN MapSet(win, key,
            IF ~allowed THEN [w EXCEPT !.denied = TRUE]
            ELSE IF domain = "ip" THEN [w EXCEPT !.ip = @ + 1]
            ELSE [w EXCEPT !.ch = @ + 1])

\* Arrive in which the check was split by an await: a request that arrives
\* while another is being served has read the map before that one wrote
\* it, and writes a window of its own.
Arrive_racy(r, request) ==
  /\ shared.run[r].pc = "idle"
  /\ LET clientId == getClientIdentifier(request)
         stale == \E o \in SharedRuns \ {r} : shared.run[o].pc # "idle"
         c == checkRateLimit(IF stale THEN EmptyMap ELSE limits, clientId,
                             PER_IP_maxRequests, PER_IP_windowSeconds, now)
     IN /\ limits' = MapSet(limits, clientId, c.limits[clientId])
        /\ shared' = [shared EXCEPT
             !.run[r] = IF c.result.allowed
                        THEN [NoSharedRun EXCEPT !.pc = "json",
                                                 !.clientId = clientId,
                                                 !.took = <<clientId>>]
                        ELSE NoSharedRun,
             !.win = Counted(@, clientId, "ip", PER_IP_windowSeconds,
                             c.result.allowed),
             !.spoofed = @ \/ clientId \in ChannelKeys]
  /\ UNCHANGED <<now, sharedOthers>>

\* A request arrives: the per-caller check.  part_004 lines 44-62.
Arrive(r, request) ==
  /\ shared.run[r].pc = "idle"
  /\ LET clientId == getClientIdentifier(request)
         c == checkRateLimit(limits, clientId, PER_IP_maxRequests,
                             PER_IP_windowSeconds, now)
     IN /\ limits' = c.limits
        /\ shared' = [shared EXCEPT
             !.run[r] = IF c.result.allowed
                        THEN [NoSharedRun EXCEPT !.pc = "json",
                                                 !.clientId = clientId,
                                                 !.took = <<clientId>>]
                        ELSE NoSharedRun,
             !.win = Counted(@, clientId, "ip", PER_IP_windowSeconds,
                             c.result.allowed),
             !.spoofed = @ \/ clientId \in ChannelKeys]
  /\ UNCHANGED <<now, sharedOthers>>

\* request.json() settles.  Lines 62-78.
Parsed(r, o) ==
  /\ shared.run[r].pc = "json"
  /\ shared' = [shared EXCEPT !.run[r] =
       IF ~o.ok \/ o.value = <<>> \/ ~(RequiredKeys \subseteq env)
       THEN NoSharedRun
       ELSE [@ EXCEPT !.pc = "resolve"]]
  /\ UNCHANGED <<now, limits, sharedOthers>>

\* getChannelIdFromUrl settles: the per-channel check.  Lines 78-99.
Resolved(r, o) ==
  /\ shared.run[r].pc = "resolve"
  /\ IF ~o.ok \/ o.value = <<>>
     THEN /\ shared' = [shared EXCEPT !.run[r] = NoSharedRun]
          /\ limits' = limits
     ELSE LET channelId == o.value[1]
              key == ChannelKey(channelId)
              c == checkRateLimit(limits, key, PER_CHANNEL_maxRequests,
                                  PER_CHANNEL_windowSeconds, now)
          IN /\ limits' = c.limits
             /\ shared' = [shared EXCEPT
                  !.run[r] = IF c.result.allowed
                             THEN [@ EXCEPT !.pc = "work",
                                            !.channelId = channelId,
                                            !.took = Append(@, key)]
                             ELSE NoSharedRun,
                  !.win = Counted(@, key, "channel",
                                  PER_CHANNEL_windowSeconds,
                                  c.result.allowed)]
  /\ UNCHANGED <<now, sharedOthers>>

\* The stages settle: one of them raises, or the run completes.  Lines
\* 101-136.
Worked(r, ok) ==
  /\ shared.run[r].pc = "work"
  /\ shared' = [shared EXCEPT !.run[r] = NoSharedRun]
  /\ UNCHANGED <<now, limits, sharedOthers>>

SharedCleanup ==
  /\ limits' = cleanup(limits, now)
  /\ UNCHANGED <<now, shared, sharedOthers>>

SharedTick ==
  /\ \E t \in SharedInstants : t > now /\ now' = t
  /\ UNCHANGED <<limits, shared, sharedOthers>>

SharedNext ==
  \/ \E r \in SharedRuns, request \in SharedRequests : Arrive(r, request)
  \/ \E r \in SharedRuns, o \in JsonOutcomes : Parsed(r, o)
  \/ \E r \in SharedRuns, o \in ResolveOutcomes : Resolved(r, o)
  \/ \E r \in SharedRuns, ok \in BOOLEAN : Worked(r, ok)
  \/ SharedCleanup
  \/ SharedTick

SpecShared == SharedInit /\ [][SharedNext]_vars

\* In one window of a key each domain passes no more checks than its
\* maxRequests.
QuotaPerWindow ==
  \A key \in DOMAIN shared.win :
    /\ shared.win[key].ip <= PER_IP_maxRequests
    /\ shared.win[key].ch <= PER_CHANNEL_maxRequests

\* No step replaces a window that is live, or takes from its count.
LiveWindowKept ==
  \A key \in DOMAIN limits :
    ~(now > limits[key].resetAt) =>
      /\ key \in DOMAIN limits'
      /\ limits'[key].resetAt = limits[key].resetAt
      /\ limits'[key].count >= limits[key].count

\* C31: however the requests served together interleave, the checks passed
\* for one identity in one window never exceed the maxRequests of the
\* domain (10 per caller, 5 per channel), and a window that is live is
\* never created a second time.
C31_SharedLimiterQuota == []QuotaPerWindow /\ [][LiveWindowKept]_vars

\* Two requests of one caller are being served together, one of them took
\* the tenth slot of the caller's window, and a third was denied in it.
C31_Witness ==
  /\ shared.run[1].pc = "resolve"
  /\ shared.run[1].clientId \in DOMAIN limits
  /\ shared.run[2].pc = "json"
  /\ shared.run[2].clientId = shared.run[1].clientId
  /\ limits[shared.run[1].clientId].count = PER_IP_maxRequests
  /\ shared.win[shared.run[1].clientId].ip = PER_IP_maxRequests
  /\ shared.win[shared.run[1].clientId].denied

\* The occurrences of key in a sequence of keys.
Times(s, key) == Cardinality({i \in 1..Len(s) : s[i] = key})

\* A request being served has taken one slot of its caller's window, and
\* of the window of a channel only the slot of its per-channel check; no
\* caller identity is the key of a channel.
OneSlotEach ==
  \A r \in SharedRuns :
    LET rr == shared.run[r] IN
    rr.pc # "idle" =>
      /\ Times(rr.took, rr.clientId) = 1
      /\ rr.clientId \notin ChannelKeys
      /\ \A c \in Channels :
           Times(rr.took, ChannelKey(c)) =
             IF rr.pc = "work" /\ rr.channelId = c THEN 1 ELSE 0

\* The count key has in its live window, 0 without one.
LiveCount(lim, key, t) ==
  IF key \in DOMAIN lim /\ ~(t > lim[key].resetAt) THEN lim[key].count
  ELSE 0

\* The step writes the window of key.
Writes(key) ==
  /\ key \in DOMAIN limits'
  /\ key \in DOMAIN limits => limits'[key] # limits[key]

\* The window of a caller is written only by the per-caller check of a
\* request of the caller that passes, which counts one: nothing that
\* happens to the request afterwards writes it.
CallerStep(key) ==
  Writes(key) =>
    /\ limits'[key].count = LiveCount(limits, key, now) + 1
    /\ \E r \in SharedRuns :
         /\ shared.run[r].pc = "idle"
         /\ shared'.run[r].pc = "json"
         /\ shared'.run[r].clientId = key

CallerWindowStep ==
  \A request \in SharedRequests : CallerStep(getClientIdentifier(request))

\* The window of a channel is written only by the per-channel check of a
\* request resolved to the channel that passes, which counts one.
ChannelWindowStep ==
  \A c \in Channels :
    LET key == ChannelKey(c) IN
    Writes(key) =>
      /\ limits'[key].count = LiveCount(limits, key, now) + 1
      /\ \E r \in SharedRuns :
           /\ shared.run[r].pc = "resolve"
           /\ shared'.run[r].pc = "work"
           /\ shared'.run[r].channelId = c

\* C36: a request that passed the per-caller check consumes one slot of
\* its caller's window, whatever happens to it afterwards; the window of a
\* channel is counted up only by requests resolved to the channel that
\* pass its check, once each; the two domains share no key.
C36_SlotsAndKeys ==
  []OneSlotEach /\ [][CallerWindowStep /\ ChannelWindowStep]_vars

\* The same of the callers whose identity is not the key of a channel,
\* and of the channels as long as no caller has named itself with the key
\* of one.
HonestWindowStep ==
  /\ \A request \in SharedRequests :
       LET key == getClientIdentifier(request) IN
       key \in ChannelKeys \/ CallerStep(key)
  /\ shared'.spoofed \/ ChannelWindowStep

C36_Holds_HonestCallers ==
  [](shared.spoofed \/ OneSlotEach) /\ [][HonestWindowStep]_vars

\* A caller whose x-forwarded-for is "channel:UC1" asked for the channel
\* UC1: its request took two slots of one window, which is the window of
\* the caller and of the channel.
C36_Witness ==
  \E r \in SharedRuns :
    /\ shared.run[r].pc = "work"
    /\ shared.run[r].clientId = ChannelKey("UC1")
    /\ shared.run[r].channelId = "UC1"
    /\ shared.run[r].took = <<"channel:UC1", "channel:UC1">>
    /\ limits["channel:UC1"].count = 2
    /\ shared.win["channel:UC1"].ip = 1
    /\ shared.win["channel:UC1"].ch = 1

(***************************************************************************)
(* analyzeTopics (part_000) over each revision of utils/cache: the         *)
(* in-memory SimpleCache of part_005, whose getCached and setCached are    *)
(* synchronous, and the store of app/utils/cache.ts, whose getCached and   *)
(* setCached are async functions.  analyzeTopics awaits neither: over      *)
(* cache.ts the call returns the promise of getCached and is resolved when *)
(* the store answers kv.get, at that instant.  The store answers every     *)
(* call here, and being durable it may hold a record from before.          *)
(***************************************************************************)
TOPIC_ANALYSIS == 86400
DayMs == TOPIC_ANALYSIS * 1000
AnalyzeInstants == {0, 1, DayMs, DayMs + 1, 2 * DayMs + 2}
CacheVariants == {"part_005", "cache.ts"}

\* The ids of the videos in the order of Array.prototype.sort, and the
\* lists of videos analyzeTopics is called with.
IdOrder == <<"v1", "v2">>
VideoIdLists == {<<"v1">>, <<"v1", "v2">>, <<"v2", "v1">>}
Rank(id) == CHOOSE i \in 1..Len(IdOrder) : IdOrder[i] = id

\* ids.sort()
RECURSIVE insertId(_, _)
insertId(id, s) ==
  IF s = <<>> THEN <<id>>
  ELSE IF Rank(id) <= Rank(Head(s)) THEN <<id>> \o s
  ELSE <<Head(s)>> \o insertId(id, Tail(s))

RECURSIVE sortIds(_)
sortIds(ids) ==
  IF ids = <<>> THEN <<>> ELSE insertId(Head(ids), sortIds(Tail(ids)))

\* ids.join(',')
RECURSIVE joinIds(_)
joinIds(ids) ==
  IF ids = <<>> THEN ""
  ELSE IF Len(ids) = 1 THEN ids[1]
  ELSE ids[1] \o "," \o joinIds(Tail(ids))

\* A cache key made of the ids in the order the videos came in.
topicsKey_unsorted(ids) == "topics:" \o joinIds(ids)

\* `topics:${videos.map(v => v.id).sort().join(',')}`
topicsKey(ids) == "topics:" \o joinIds(sortIds(ids))

\* JSON.parse(completion.choices[0].message.content || '{}'): the topics
\* (Topics("none", <<>>) when the JSON has none) and the summary (<<>> when
\* it has none).
Completion(topics, summary) == [topics |-> topics, summary |-> summary]
CompletionOutcomes ==
  {Raise("Connection error."),
   Return(Completion(NoTopics, <<>>)),
   Return(Completion(Topics("array", <<"t1">>), <<"s1">>)),
   Return(Completion(Topics("string", <<"s">>), <<"s1">>))}

\* {topics: response.topics || [], summary: response.summary || ''}
AnalysisResult(response) ==
  [topics |-> IF response.topics.shape = "none" THEN Topics("array", <<>>)
              ELSE response.topics,
   summary |-> IF response.summary = <<>> THEN <<"">> ELSE response.summary]

\* The store of cache.ts holding the record of an analysis of the video
\* v1, written at 0 by setCached(key, result, CACHE_TTL.TOPIC_ANALYSIS).
StoredBefore ==
  kv_setCached(EmptyMap, topicsKey(<<"v1">>),
               AnalysisResult(Completion(Topics("array", <<"t1">>), <<"s1">>)),
               TOPIC_ANALYSIS, 0, TRUE)

\* The call of analyzeTopics in progress or last made: the revision of the
\* cache it runs over, where it is (getCached: kv.get of cache.ts is
\* pending; completion: the completion is awaited), its videos and cache
\* key, the completion calls it made, what the completion held and what the
\* call came to (the value it resolved to, or the raise); and history: the
\* record the cache held for the key when the call was made, and the entry
\* and the instant of the setCached of the call.
NoAn ==
  [variant |-> "part_005", pc |-> "idle", videos |-> <<>>, key |-> "",
   completions |-> 0, response |-> null, result |-> Return(null),
   hit |-> null, stored |-> null, setAt |-> 0]

AnalyzeInit ==
  /\ now = 0
  /\ an \in {[NoAn EXCEPT !.variant = v] : v \in CacheVariants}
  /\ cache \in IF an.variant = "part_005" THEN {EmptyMap}
               ELSE {EmptyMap, StoredBefore}
  /\ limits = EmptyMap
  /\ cfg = <<>>
  /\ resp = NoResp
  /\ gEnd = [i \in LimIdents |-> -1]
  /\ gCalls = [i \in LimIdents |-> 0]
  /\ env = {}
  /\ run = <<>>
  /\ cres = <<>>
  /\ adp = <<>>
  /\ vid = <<>>
  /\ race = <<>>
  /\ burst = <<>>
  /\ shared = <<>>
  /\ twin = <<>>

analyzeOthers ==
  <<limits, cfg, resp, gEnd, gCalls, env, run, cres, adp, vid, race,
    burst, shared, twin>>

\* The record the cache holds for key and has not let expire.
Live(c, key, t) ==
  IF key \in DOMAIN c /\ ~(t > c[key].expiresAt) THEN Some(c[key].data)
  ELSE null

\* AnalyzeCall with the cache key made without the sort.
AnalyzeCall_unsortedKey(videos) ==
  /\ an.pc \in {"idle", "done"}
  /\ LET key == topicsKey_unsorted(videos)
         call == [NoAn EXCEPT !.variant = an.variant, !.videos = videos,
                              !.key = key, !.hit = Live(cache, key, now)]
     IN IF an.variant = "part_005"
        THEN LET g == getCached(cache, key, now) IN
             /\ cache' = g.cache
             /\ an' = IF g.value # null
                      THEN [call EXCEPT !.pc = "done",
                                        !.result = Return(g.value)]
                      ELSE [call EXCEPT !.pc = "completion",
                                        !.completions = 1]
        ELSE /\ cache' = cache
             /\ an' = [call EXCEPT !.pc = "getCached"]
  /\ UNCHANGED <<now, analyzeOthers>>

\* analyzeTopics(videos) is called and runs until it returns to the event
\* loop.  part_000 lines 10-42.  With part_005 cached is the record or
\* null, and on null the completion is called.  With cache.ts cached is a
\* promise, which is truthy: `return cached` leaves the call to be resolved
\* by that promise, with kv.get pending.
AnalyzeCall(videos) ==
  /\ an.pc \in {"idle", "done"}
  /\ LET key == topicsKey(videos)
         call == [NoAn EXCEPT !.variant = an.variant, !.videos = videos,
                              !.key = key, !.hit = Live(cache, key, now)]
     IN IF an.variant = "part_005"
        THEN LET g == getCached(cache, key, now) IN
             /\ cache' = g.cache
             /\ an' = IF g.value # null
                      THEN [call EXCEPT !.pc = "done",
                                        !.result = Return(g.value)]
                      ELSE [call EXCEPT !.pc = "completion",
                                        !.completions = 1]
        ELSE /\ cache' = cache
             /\ an' = [call EXCEPT !.pc = "getCached"]
  /\ UNCHANGED <<now, analyzeOthers>>

\* The store answers the kv.get of getCached, and the call is resolved to
\* what getCached returns: the record, or null.  cache.ts lines 15-24,
\* part_000 lines 16-19.
AnalyzeGetSettles ==
  /\ an.pc = "getCached"
  /\ an' = [an EXCEPT
              !.pc = "done",
              !.result = Return(kv_getCached(cache, an.key, now, TRUE))]
  /\ UNCHANGED <<now, cache, analyzeOthers>>

\* The completion settles.  Lines 42-66.  Only a call over part_005 awaits
\* the completion: over cache.ts line 17 is always taken.
CompletionSettles(o) ==
  /\ an.pc = "completion"
  /\ an.variant = "part_005"
  /\ IF ~o.ok
     THEN /\ an' = [an EXCEPT !.pc = "done", !.result = o]
          /\ cache' = cache
     ELSE LET result == AnalysisResult(o.value)
              c == setCached(cache, an.key, result, TOPIC_ANALYSIS, now)
          IN /\ cache' = c
             /\ an' = [an EXCEPT !.pc = "done", !.response = Some(o.value),
                                 !.result = Return(Some(result)),
                                 !.stored = Some(c[an.key]), !.setAt = now]
  /\ UNCHANGED <<now, analyzeOthers>>

\* The timer of part_005 sweeps the map.
AnalyzeCleanup ==
  /\ an.variant = "part_005"
  /\ cache' = cache_cleanup(cache, now)
  /\ UNCHANGED <<now, an, analyzeOthers>>

AnalyzeTick ==
  /\ \E t \in AnalyzeInstants : t > now /\ now' = t
  /\ UNCHANGED <<cache, an, analyzeOthers>>

AnalyzeNext ==
  \/ \E videos \in VideoIdLists : AnalyzeCall(videos)
  \/ AnalyzeGetSettles
  \/ \E o \in CompletionOutcomes : CompletionSettles(o)
  \/ AnalyzeCleanup
  \/ AnalyzeTick

SpecAnalyze == AnalyzeInit /\ [][AnalyzeNext]_vars

SameVideos(a, b) ==
  {a[i] : i \in 1..Len(a)} = {b[i] : i \in 1..Len(b)} /\ Len(a) = Len(b)

\* The cache key is the same for the videos in any order.
KeyOfTheSet ==
  \A v \in VideoIdLists :
    SameVideos(v, an.videos) => topicsKey(v) = an.key

\* A call that found a live record resolved to it without a completion
\* call.
HitReturnsStored ==
  an.hit # null => an.completions = 0 /\ an.result = Return(an.hit)

\* A call that found none made one completion call, and when that
\* returned resolved to the parsed record and stored it for 24 hours.
MissCallsOnceAndStores ==
  an.hit = null =>
    /\ an.completions = 1
    /\ an.result.ok =>
         /\ an.response # null
         /\ an.result = Return(Some(AnalysisResult(an.response[1])))
         /\ an.stored = Some([data |-> an.result.value[1],
                              expiresAt |-> an.setAt + TOPIC_ANALYSIS * 1000])

\* What the call resolved to is a record whose topics is a list.
HandsTopicsList ==
  an.result.ok =>
    /\ an.result.value # null
    /\ an.result.value[1].topics.shape = "array"

\* C34: with either revision of the cache, analyzeTopics on a miss for the
\* set of video ids calls the completion once, returns the parsed record
\* {topics, summary} and stores it for 24 hours; on a hit it returns the
\* stored record without a completion call; what it hands back is a record
\* with a list of topics; and the cache key does not depend on the order of
\* the videos.
C34_AnalyzeTopicsCached ==
  an.pc = "done" =>
    /\ KeyOfTheSet
    /\ HitReturnsStored
    /\ MissCallsOnceAndStores
    /\ HandsTopicsList

\* The same over the in-memory cache of part_005, where the topics handed
\* back are a list when the completion's JSON held a list or none.
C34_Holds_part_005 ==
  (an.pc = "done" /\ an.variant = "part_005") =>
    /\ KeyOfTheSet
    /\ HitReturnsStored
    /\ MissCallsOnceAndStores
    /\ an.result.ok =>
         /\ an.result.value # null
         /\ (an.hit = null /\ an.response[1].topics.shape \in {"array", "none"})
              => an.result.value[1].topics.shape = "array"

\* Over cache.ts a call for two videos with nothing stored resolved to null
\* without a completion call.
C34_Witness ==
  /\ an.variant = "cache.ts"
  /\ an.pc = "done"
  /\ an.videos = <<"v2", "v1">>
  /\ an.key = "topics:v1,v2"
  /\ an.hit = null
  /\ an.completions = 0
  /\ an.result = Return(null)

\* Over cache.ts a call made while the store held the record, and answered
\* a millisecond after the record expired, resolved to null without a
\* completion call.
C34_Witness_LateAnswer ==
  /\ an.variant = "cache.ts"
  /\ an.pc = "done"
  /\ an.videos = <<"v1">>
  /\ an.hit # null
  /\ now = DayMs + 1
  /\ an.completions = 0
  /\ an.result = Return(null)

\* Over cache.ts a call made and answered while the store held the record
\* resolved to the record.
C34_Witness_Stored ==
  /\ an.variant = "cache.ts"
  /\ an.pc = "done"
  /\ an.hit # null
  /\ an.result = Return(an.hit)

\* Over part_005 a call for the same videos in another order, within 24
\* hours of the call that stored the record, resolved to the stored record.
C34_Witness_part_005 ==
  /\ an.variant = "part_005"
  /\ an.pc = "done"
  /\ an.videos = <<"v2", "v1">>
  /\ now = DayMs
  /\ an.hit = Some(AnalysisResult(Completion(Topics("array", <<"t1">>), <<"s1">>)))
  /\ an.result = Return(an.hit)
  /\ an.completions = 0

(***************************************************************************)
(* The two revisions of utils/cache given the same operations at the same  *)
(* instants: the SimpleCache of part_005, whose functions act and return   *)
(* at once, and app/utils/cache.ts, whose async functions return to the    *)
(* event loop at kv.get, kv.set and kv.del: the store takes each of them   *)
(* at an instant of its own, in any order, and never fails here.  What an  *)
(* async function of cache.ts returns is what its promise resolves to.     *)
(***************************************************************************)
TwinKeys == {"k1", "k2"}
TwinData == {"v1", "v2"}
TwinTtls == {0, 1}
TwinInstants == {0, 1000, 1001}
MaxPending == 1

\* The last getCached given: its key, what part_005 returned, and what
\* cache.ts resolved to once the store has answered.
NoGet == [key |-> "", memValue |-> null, kvValue |-> null, answered |-> TRUE]

\* The map of part_005 and the store of cache.ts; the kv.set and kv.del of
\* cache.ts that the store has not taken yet; the last getCached, until
\* another step follows its answer; and history: the keys cleared or
\* deleted and not set since, whether every clearCache so far had a key and
\* every setCached a ttlSeconds above 0, and whether the store has answered
\* every operation so far at the instant it was given and before the next
\* was given (inStep; the other two are kept while it holds).
NoTwin ==
  [mem |-> EmptyMap, kv |-> EmptyMap, pending |-> EmptyBag, get |-> NoGet,
   cleared |-> {}, plain |-> TRUE, inStep |-> TRUE]

TwinInit ==
  /\ now = 0
  /\ twin = NoTwin
  /\ cache = EmptyMap
  /\ limits = EmptyMap
  /\ cfg = <<>>
  /\ resp = NoResp
  /\ gEnd = [i \in LimIdents |-> -1]
  /\ gCalls = [i \in LimIdents |-> 0]
  /\ env = {}
  /\ run = <<>>
  /\ cres = <<>>
  /\ adp = <<>>
  /\ vid = <<>>
  /\ race = <<>>
  /\ burst = <<>>
  /\ shared = <<>>
  /\ an = <<>>

twinOthers ==
  <<limits, cfg, resp, gEnd, gCalls, env, run, cache, cres, adp, vid,
    race, burst, shared, an>>

\* cache.ts has no operation with the store in progress.
Quiet == twin.pending = EmptyBag /\ twin.get.answered

\* The histories cleared and plain are kept while inStep holds.
InStepOnly(t) ==
  IF t.inStep THEN t ELSE [t EXCEPT !.cleared = {}, !.plain = FALSE]

\* A kv.set or kv.del on its way to the store.
KvOp(op, key, data, ttlSeconds) ==
  [op |-> op, key |-> key, data |-> data, ttlSeconds |-> ttlSeconds]

\* getCached(key) is given to each: part_005 returns, cache.ts awaits
\* kv.get.  part_005 lines 17-27 and 68-70, cache.ts lines 15-17.
TwinGet(key) ==
  /\ twin.get.answered
  /\ LET g == getCached(twin.mem, key, now)
     IN twin' = InStepOnly([twin EXCEPT
                   !.mem = g.cache,
                   !.get = [key |-> key, memValue |-> g.value,
                            kvValue |-> null, answered |-> FALSE],
                   !.inStep = @ /\ Quiet])
  /\ UNCHANGED <<now, twinOthers>>

\* The store answers kv.get and getCached of cache.ts returns.  cache.ts
\* lines 17-18.
TwinGetSettles ==
  /\ ~twin.get.answered
  /\ twin' = [twin EXCEPT
       !.get.kvValue = kv_getCached(twin.kv, twin.get.key, now, TRUE),
       !.get.answered = TRUE]
  /\ UNCHANGED <<now, twinOthers>>

\* setCached(key, data, ttlSeconds) is given to each: part_005 writes,
\* cache.ts awaits kv.set.  part_005 lines 12-15 and 72-74, cache.ts lines
\* 26-28.
TwinSet(key, data, ttlSeconds) ==
  /\ BagCardinality(twin.pending) < MaxPending
  /\ twin' = InStepOnly([twin EXCEPT
       !.mem = setCached(@, key, data, ttlSeconds, now),
       !.pending = @ (+) SetToBag({KvOp("set", key, data, ttlSeconds)}),
       !.get = IF @.answered THEN NoGet ELSE @,
       !.cleared = @ \ {key},
       !.plain = @ /\ ttlSeconds > 0,
       !.inStep = @ /\ Quiet])
  /\ UNCHANGED <<now, twinOthers>>

\* The store takes a kv.set: the lifetime runs from now.  cache.ts line 28.
TwinSetSettles(w) ==
  /\ BagIn(w, twin.pending)
  /\ w.op = "set"
  /\ twin' = [twin EXCEPT
       !.kv = kv_setCached(@, w.key, w.data, w.ttlSeconds, now, TRUE),
       !.pending = @ (-) SetToBag({w}),
       !.get = IF @.answered THEN NoGet ELSE @]
  /\ UNCHANGED <<now, twinOthers>>

\* clearCache(key) is given to each; key = "" is the call without a key.
\* part_005 deletes the key, or clears its map; cache.ts awaits kv.del, or
\* warns and returns.  part_005 lines 76-82, cache.ts lines 35-42.
TwinClear(key) ==
  /\ key # "" => BagCardinality(twin.pending) < MaxPending
  /\ twin' = InStepOnly([twin EXCEPT
       !.mem = clearCache(@, key),
       !.pending = IF key = "" THEN @
                   ELSE @ (+) SetToBag({KvOp("del", key, "", 0)}),
       !.get = IF @.answered THEN NoGet ELSE @,
       !.cleared = IF key = "" THEN TwinKeys ELSE @ \cup {key},
       !.plain = @ /\ key # "",
       !.inStep = @ /\ Quiet])
  /\ UNCHANGED <<now, twinOthers>>

\* The store takes a kv.del.  cache.ts line 42.
TwinDelSettles(w) ==
  /\ BagIn(w, twin.pending)
  /\ w.op = "del"
  /\ twin' = [twin EXCEPT
       !.kv = kv_clearCache(@, w.key, TRUE),
       !.pending = @ (-) SetToBag({w}),
       !.get = IF @.answered THEN NoGet ELSE @]
  /\ UNCHANGED <<now, twinOthers>>

\* The timer of part_005 sweeps its map.
TwinCleanup ==
  /\ twin' = [twin EXCEPT !.mem = cache_cleanup(@, now),
                          !.get = IF @.answered THEN NoGet ELSE @]
  /\ UNCHANGED <<now, twinOthers>>

TwinTick ==
  /\ \E t \in TwinInstants : t > now /\ now' = t
  /\ twin' = InStepOnly([twin EXCEPT
                            !.inStep = @ /\ Quiet,
                            !.get = IF @.answered THEN NoGet ELSE @])
  /\ UNCHANGED twinOthers

TwinNext ==
  \/ \E key \in TwinKeys : TwinGet(key)
  \/ TwinGetSettles
  \/ \E key \in TwinKeys, data \in TwinData, ttlSeconds \in TwinTtls :
       TwinSet(key, data, ttlSeconds)
  \/ \E w \in BagToSet(twin.pending) : TwinSetSettles(w)
  \/ \E key \in TwinKeys \cup {""} : TwinClear(key)
  \/ \E w \in BagToSet(twin.pending) : TwinDelSettles(w)
  \/ TwinCleanup
  \/ TwinTick

SpecTwin == TwinInit /\ [][TwinNext]_vars

\* A get was given and both revisions have returned.
GetReturned == twin.get # NoGet /\ twin.get.answered

\* A get returned the same from both.
SameResults == GetReturned => twin.get.memValue = twin.get.kvValue

\* A get of a key cleared or deleted and not set since returned null from
\* both.
AbsentAfterClear ==
  (GetReturned /\ twin.get.key \in twin.cleared) =>
    twin.get.memValue = null /\ twin.get.kvValue = null

\* C39: with a store that never fails, the two revisions of the cache
\* return the same for every sequence of get, set, delete(key) and clear()
\* at the same instants (the store acting on each operation at the instant
\* it is given, before the next), and after clear() every get returns null
\* from both.
C39_VariantsEquivalent == twin.inStep => (SameResults /\ AbsentAfterClear)

\* The same while every clearCache had a key and every setCached a
\* ttlSeconds above 0.
C39_Holds_KeyedPositive ==
  (twin.inStep /\ twin.plain) => (SameResults /\ AbsentAfterClear)

\* After a clearCache() without a key and no set since, each operation
\* answered before the next, a get found nothing in part_005 and the
\* record in cache.ts.
C39_Witness ==
  /\ twin.inStep
  /\ GetReturned
  /\ twin.cleared = TwinKeys
  /\ twin.get.memValue = null
  /\ twin.get.kvValue # null
  /\ twin.mem = EmptyMap
  /\ twin.get.key \in DOMAIN twin.kv

\* After a setCached with ttlSeconds 0 a get at the same instant found the
\* record in part_005 and nothing in cache.ts.
C39_Witness_ZeroTtl ==
  /\ twin.inStep
  /\ GetReturned
  /\ twin.get.memValue # null
  /\ twin.get.kvValue = null
  /\ twin.get.key \in DOMAIN twin.mem
  /\ twin.mem[twin.get.key].expiresAt = now
  /\ twin.kv = EmptyMap

\* With keys and positive lifetimes only: a record set, found by both one
\* second later, and by neither a millisecond after that.
C39_Witness_Equivalent ==
  /\ twin.inStep
  /\ twin.plain
  /\ GetReturned
  /\ now = 1001
  /\ twin.get.memValue = null
  /\ twin.get.kvValue = null
  /\ twin.get.key \in DOMAIN twin.kv
  /\ twin.kv[twin.get.key].expiresAt = 1000

\* With keys and positive lifetimes, a get given before the store had
\* taken the kv.set of the setCached before it: the record from part_005,
\* null from cache.ts, and the write still on its way.
C39_Witness_NotAwaited ==
  /\ ~twin.inStep
  /\ GetReturned
  /\ twin.get.memValue # null
  /\ twin.mem[twin.get.key].expiresAt > now
  /\ twin.get.kvValue = null
  /\ twin.kv = EmptyMap
  /\ twin.pending # EmptyBag

\* A setCached given at 0 whose kv.set the store took a second later: the
\* record lives until 1000 in part_005 and until 2000 in the store.
C39_Witness_LateWrite ==
  /\ ~twin.inStep
  /\ "k1" \in DOMAIN twin.mem
  /\ "k1" \in DOMAIN twin.kv
  /\ twin.mem["k1"].expiresAt = 1000
  /\ twin.kv["k1"].expiresAt = 2000

====
